---- MODULE Spec2Model ----
(***************************************************************************)
(* pi-bash-guard (src/index.ts): a guard that blocks bash invocations by   *)
(* command prefix.  Four rule sets (persistent/session x block/permit), a  *)
(* configuration file, the policy commands, the session_start hook and     *)
(* the two evaluation entry points (tool_call, user_bash).                 *)
(*                                                                         *)
(* Representation.  A JavaScript string is a TLA+ string; its i-th         *)
(* character is SubSeq(s, i, i).  A string[] is a sequence of strings.  A  *)
(* Set<string> is the sequence of its elements in insertion order, without *)
(* duplicates, which is the order JavaScript iterates it in.               *)
(* string | undefined is a record [defined, value].                        *)
(***************************************************************************)
EXTENDS Integers, Sequences, FiniteSets, TLC

(***************************************************************************)
(* Characters and the string primitives of JavaScript that the code uses.  *)
(***************************************************************************)
charAt(s, i) == SubSeq(s, i, i)

\* /\s/ and String.prototype.trim(): the white space of the inputs used here.
IsWhitespace(c) == c \in {" ", "\t", "\n"}

LowerLetters == "abcdefghijklmnopqrstuvwxyz"
UpperLetters == "ABCDEFGHIJKLMNOPQRSTUVWXYZ"
Digits == "0123456789"

InString(c, s) == \E i \in 1..Len(s) : charAt(s, i) = c

CharsOf(s) == {charAt(s, i) : i \in 1..Len(s)}
LetterChars == CharsOf(LowerLetters) \cup CharsOf(UpperLetters)
DigitChars == CharsOf(Digits)

IsLetter(c) == c \in LetterChars
IsDigit(c) == c \in DigitChars

\* String.prototype.toLowerCase() on one character
LowerOfUpper ==
  [c \in CharsOf(UpperLetters) |->
     charAt(LowerLetters, CHOOSE i \in 1..Len(UpperLetters) : charAt(UpperLetters, i) = c)]

toLowerChar(c) == IF c \in DOMAIN LowerOfUpper THEN LowerOfUpper[c] ELSE c

RECURSIVE toLowerCase(_)
toLowerCase(s) ==
  IF Len(s) = 0 THEN "" ELSE toLowerChar(charAt(s, 1)) \o toLowerCase(Tail(s))

\* s.replace(/^[chars]+/, "")
RECURSIVE stripLeading(_, _)
stripLeading(s, chars) ==
  IF Len(s) > 0 /\ charAt(s, 1) \in chars THEN stripLeading(Tail(s), chars) ELSE s

\* s.replace(/[chars]+$/, "")
RECURSIVE stripTrailing(_, _)
stripTrailing(s, chars) ==
  IF Len(s) > 0 /\ charAt(s, Len(s)) \in chars
  THEN stripTrailing(SubSeq(s, 1, Len(s) - 1), chars)
  ELSE s

trim(s) == stripTrailing(stripLeading(s, {" ", "\t", "\n"}), {" ", "\t", "\n"})

startsWith(s, p) == Len(s) >= Len(p) /\ SubSeq(s, 1, Len(p)) = p

\* tokens.join(" ")
RECURSIVE join(_, _)
join(tokens, sep) ==
  IF Len(tokens) = 0 THEN ""
  ELSE IF Len(tokens) = 1 THEN tokens[1]
  ELSE tokens[1] \o sep \o join(Tail(tokens), sep)

\* s.split("/").filter(Boolean): the non-empty pieces between slashes, in order.
RECURSIVE splitNonEmpty(_, _, _, _)
splitNonEmpty(s, i, parts, current) ==
  IF i > Len(s)
  THEN IF Len(current) > 0 THEN Append(parts, current) ELSE parts
  ELSE IF charAt(s, i) = "/"
       THEN splitNonEmpty(s, i + 1,
                          IF Len(current) > 0 THEN Append(parts, current) ELSE parts, "")
       ELSE splitNonEmpty(s, i + 1, parts, current \o charAt(s, i))

(***************************************************************************)
(* Set<string>: has, add, delete, new Set(array); Array.prototype.sort()   *)
(***************************************************************************)
Elements(seq) == {seq[i] : i \in 1..Len(seq)}

has(set, x) == x \in Elements(set)

add(set, x) == IF has(set, x) THEN set ELSE Append(set, x)

delete(set, x) == LET keep(y) == y # x IN SelectSeq(set, keep)

RECURSIVE newSetFrom(_, _, _)
newSetFrom(array, i, set) ==
  IF i > Len(array) THEN set ELSE newSetFrom(array, i + 1, add(set, array[i]))

newSet(array) == newSetFrom(array, 1, <<>>)

\* The UTF-16 code unit of a character (the ASCII characters the inputs use).
AsciiFromSpace == " !\"#$%&'()*+,-./0123456789:;<=>?@ABCDEFGHIJKLMNOPQRSTUVWXYZ[\\]^_"
AsciiFromLowerA == "abcdefghijklmnopqrstuvwxyz{|}~"

CodeUnits ==
  [c \in CharsOf(AsciiFromSpace) \cup CharsOf(AsciiFromLowerA) \cup {"\t", "\n"} |->
     IF c = "\t" THEN 9
     ELSE IF c = "\n" THEN 10
     ELSE IF InString(c, AsciiFromSpace)
       THEN 31 + (CHOOSE i \in 1..Len(AsciiFromSpace) : charAt(AsciiFromSpace, i) = c)
     ELSE 96 + (CHOOSE i \in 1..Len(AsciiFromLowerA) : charAt(AsciiFromLowerA, i) = c)]

codeUnit(c) == CodeUnits[c]

\* a < b as the default comparison of Array.prototype.sort() orders strings
RECURSIVE stringLess(_, _)
stringLess(a, b) ==
  IF Len(b) = 0 THEN FALSE
  ELSE IF Len(a) = 0 THEN TRUE
  ELSE IF charAt(a, 1) = charAt(b, 1) THEN stringLess(Tail(a), Tail(b))
  ELSE codeUnit(charAt(a, 1)) < codeUnit(charAt(b, 1))

RECURSIVE insertSorted(_, _)
insertSorted(sorted, x) ==
  IF Len(sorted) = 0 THEN <<x>>
  ELSE IF stringLess(x, sorted[1]) THEN <<x>> \o sorted
  ELSE <<sorted[1]>> \o insertSorted(Tail(sorted), x)

RECURSIVE sort(_)
sort(array) ==
  IF Len(array) = 0 THEN <<>>
  ELSE insertSorted(sort(SubSeq(array, 1, Len(array) - 1)), array[Len(array)])

(***************************************************************************)
(* The inputs of the model: the raw <prefix> arguments of the policy       *)
(* commands, the command strings handed to tool_call and user_bash, and    *)
(* the strings found in the arrays of the configuration files a session    *)
(* may start with.                                                         *)
(***************************************************************************)
PrefixArgs ==
  {"", "kubectl", "kubectl get", "kubectl get pods", "\"sudo kubectl\""}

Commands ==
  {"kubectl get pods", "gcloud compute instances list; echo hi"}

ConfigPrefixes ==
  {"gcloud", "kubectl", "kubectl get", "sudo kubectl", "env"}

\* the entries of the rule sets, and the command strings, that the evaluation of a
\* command string is checked on
EvalPrefixes ==
  {"kubectl", "kubectl get", "sudo kubectl", "gcloud"}

\* raw <prefix> arguments that exercise the normalization of a policy command's
\* argument: arguments that normalize to nothing (empty, blank, only an environment
\* assignment, only a wrapper and its options), plain prefixes, and arguments whose
\* normalized tokens hold a space or a quote
RawPrefixes ==
  {"", " ", "FOO=1", "sudo -u root", "kubectl", "kubectl get", "\"sudo kubectl\"",
   "'a b' c", "\"('\\\" \\\"')\""}

\* the session block set that the parsing of a command string is checked under: its
\* entries compile to rules of one token, of two tokens and of no token
ParsePrefixes == <<"a", "a b", "kubectl get", "'\" \"'">>

\* what the arguments of RawPrefixes are canonicalized to, and what those strings are
\* canonicalized to in turn
CanonicalOfRawPrefixes == {"sudo kubectl", "a b c", "'\" \"'", " "}

EvalCommands ==
  {"kubectl get pods", "kubectl delete pods", "kubectl",
   "gcloud compute instances list; echo hi",
   "sudo kubectl get pods | grep web && FOO=1 env; gcloud auth list"}

NoQuote == ""

(***************************************************************************)
(* splitShellSegments (src/index.ts 44-88)                                 *)
(***************************************************************************)
\* if (trimmed) segments.push(trimmed)
pushIfNonEmpty(segments, trimmed) ==
  IF Len(trimmed) > 0 THEN Append(segments, trimmed) ELSE segments

\* lines 78 and 86, as a value: the segments after the push
pushTrimmed(segments, current) == pushIfNonEmpty(segments, trim(current))

\* the state of the scanner between two characters
SplitState(segments, current, quote, escaped) ==
  [segments |-> segments, current |-> current, quote |-> quote, escaped |-> escaped]

\* splitStep without the branch of lines 66-70: a delimiter ends the segment inside
\* quotes too
splitStepIgnoringQuotes(st, c) ==
  IF st.escaped THEN SplitState(st.segments, st.current \o c, st.quote, FALSE)
  ELSE IF c = "\\" THEN SplitState(st.segments, st.current \o c, st.quote, TRUE)
  ELSE IF c = ";" \/ c = "|" \/ c = "&" \/ c = "\n"
    THEN SplitState(pushTrimmed(st.segments, st.current), "", st.quote, FALSE)
  ELSE SplitState(st.segments, st.current \o c, st.quote, FALSE)

\* the body of the for loop (lines 51-83) on the character c
splitStep(st, c) ==
  IF st.escaped THEN SplitState(st.segments, st.current \o c, st.quote, FALSE)
  ELSE IF c = "\\" THEN SplitState(st.segments, st.current \o c, st.quote, TRUE)
  ELSE IF st.quote # NoQuote
    THEN SplitState(st.segments, st.current \o c,
                    IF c = st.quote THEN NoQuote ELSE st.quote, FALSE)
  ELSE IF c = "\"" \/ c = "'"
    THEN SplitState(st.segments, st.current \o c, c, FALSE)
  ELSE IF c = ";" \/ c = "|" \/ c = "&" \/ c = "\n"
    THEN SplitState(pushTrimmed(st.segments, st.current), "", st.quote, FALSE)
  ELSE SplitState(st.segments, st.current \o c, st.quote, FALSE)

\* the for loop over command[lo..hi], left to right.  The range is halved, and the
\* state after the left half is compared (which evaluates it) before the right half
\* starts, only to keep the evaluation shallow.
RECURSIVE splitScan(_, _, _, _)
splitScan(command, lo, hi, st) ==
  IF lo > hi THEN st
  ELSE IF lo = hi THEN splitStep(st, charAt(command, lo))
  ELSE LET left == splitScan(command, lo, (lo + hi) \div 2, st) IN
       IF left = left THEN splitScan(command, (lo + hi) \div 2 + 1, hi, left) ELSE left

\* lines 86-87: the push after the loop
splitEnd(st) == pushTrimmed(st.segments, st.current)

splitShellSegmentsBody(command) ==
  splitEnd(splitScan(command, 1, Len(command), SplitState(<<>>, "", NoQuote, FALSE)))

(***************************************************************************)
(* tokenizeShellWords (src/index.ts 90-137)                                *)
(***************************************************************************)
TokenState(tokens, current, quote, escaped) ==
  [tokens |-> tokens, current |-> current, quote |-> quote, escaped |-> escaped]

\* tokenizeStep with line 108 as in splitShellSegments (ch === "\\" alone): a backslash
\* escapes inside single quotes too
tokenizeStepEscapingInSingleQuotes(st, c) ==
  IF st.escaped THEN TokenState(st.tokens, st.current \o c, st.quote, FALSE)
  ELSE IF c = "\\"
    THEN TokenState(st.tokens, st.current, st.quote, TRUE)
  ELSE IF st.quote # NoQuote
    THEN IF c = st.quote
         THEN TokenState(st.tokens, st.current, NoQuote, FALSE)
         ELSE TokenState(st.tokens, st.current \o c, st.quote, FALSE)
  ELSE IF c = "\"" \/ c = "'"
    THEN TokenState(st.tokens, st.current, c, FALSE)
  ELSE IF IsWhitespace(c)
    THEN IF Len(st.current) > 0
         THEN TokenState(Append(st.tokens, st.current), "", st.quote, FALSE)
         ELSE st
  ELSE TokenState(st.tokens, st.current \o c, st.quote, FALSE)

\* the body of the for loop (lines 97-132) on the character c
tokenizeStep(st, c) ==
  IF st.escaped THEN TokenState(st.tokens, st.current \o c, st.quote, FALSE)
  ELSE IF c = "\\" /\ st.quote # "'"
    THEN TokenState(st.tokens, st.current, st.quote, TRUE)
  ELSE IF st.quote # NoQuote
    THEN IF c = st.quote
         THEN TokenState(st.tokens, st.current, NoQuote, FALSE)
         ELSE TokenState(st.tokens, st.current \o c, st.quote, FALSE)
  ELSE IF c = "\"" \/ c = "'"
    THEN TokenState(st.tokens, st.current, c, FALSE)
  ELSE IF IsWhitespace(c)
    THEN IF Len(st.current) > 0
         THEN TokenState(Append(st.tokens, st.current), "", st.quote, FALSE)
         ELSE st
  ELSE TokenState(st.tokens, st.current \o c, st.quote, FALSE)

\* the for loop over segment[lo..hi], left to right (halved as in splitScan)
RECURSIVE tokenizeScan(_, _, _, _)
tokenizeScan(segment, lo, hi, st) ==
  IF lo > hi THEN st
  ELSE IF lo = hi THEN tokenizeStep(st, charAt(segment, lo))
  ELSE LET left == tokenizeScan(segment, lo, (lo + hi) \div 2, st) IN
       IF left = left THEN tokenizeScan(segment, (lo + hi) \div 2 + 1, hi, left) ELSE left

\* lines 135-136: if (current.length > 0) tokens.push(current); return tokens
tokenizeEnd(st) ==
  IF Len(st.current) > 0 THEN Append(st.tokens, st.current) ELSE st.tokens

tokenizeShellWordsBody(segment) ==
  tokenizeEnd(tokenizeScan(segment, 1, Len(segment), TokenState(<<>>, "", NoQuote, FALSE)))

(***************************************************************************)
(* isEnvAssignment, normalizeCommandName (src/index.ts 139-148)            *)
(***************************************************************************)
\* /^[A-Za-z_][A-Za-z0-9_]*=.*/ : an identifier, then "=" (the first "=" of the token).
isEnvAssignment(token) ==
  \E k \in 2..Len(token) :
    /\ charAt(token, k) = "="
    /\ IsLetter(charAt(token, 1)) \/ charAt(token, 1) = "_"
    /\ \A j \in 2..(k - 1) :
         IsLetter(charAt(token, j)) \/ IsDigit(charAt(token, j)) \/ charAt(token, j) = "_"

\* s.replace(/^[chars]+|[chars]+$/g, "")
stripBoth(s, chars) == stripTrailing(stripLeading(s, chars), chars)

\* s.replace(/\.exe$/i, "")
stripExe(s) ==
  IF Len(s) >= Len(".exe") /\ toLowerCase(SubSeq(s, Len(s) - Len(".exe") + 1, Len(s))) = ".exe"
  THEN SubSeq(s, 1, Len(s) - Len(".exe"))
  ELSE s

\* parts.length > 0 ? parts[parts.length - 1] : noParens
lastPart(parts, noParens) ==
  IF Len(parts) > 0 THEN parts[Len(parts)] ELSE noParens

\* the base name of noParens: what follows its last "/"
baseName(noParens) == lastPart(splitNonEmpty(noParens, 1, <<>>, ""), noParens)

normalizeCommandName(raw) ==
  toLowerCase(stripExe(baseName(stripBoth(stripBoth(trim(raw), {"'", "\""}), {"(", ")"}))))

(***************************************************************************)
(* normalizeInvocationTokens (src/index.ts 150-207).  Indices are 1-based: *)
(* idx here is the code's idx + 1, and idx > Len(tokens) is the code's     *)
(* idx >= tokens.length.                                                   *)
(***************************************************************************)
SUDO_OPTIONS_WITH_VALUE ==
  {"-u", "--user", "-g", "--group", "-h", "--host", "-p", "--prompt",
   "-r", "--role", "-t", "--type", "-c", "--close-from"}

\* while (idx < tokens.length && isEnvAssignment(tokens[idx])) idx += 1;
RECURSIVE skipEnvAssignments(_, _)
skipEnvAssignments(tokens, idx) ==
  IF idx <= Len(tokens) /\ isEnvAssignment(tokens[idx])
  THEN skipEnvAssignments(tokens, idx + 1)
  ELSE idx

\* the inner loop of the env branch (lines 161-180)
RECURSIVE skipEnvArguments(_, _)
skipEnvArguments(tokens, idx) ==
  IF idx > Len(tokens) THEN idx
  ELSE IF isEnvAssignment(tokens[idx]) THEN skipEnvArguments(tokens, idx + 1)
  ELSE IF startsWith(tokens[idx], "-")
    THEN IF (tokens[idx] = "-u" \/ tokens[idx] = "--unset") /\ idx + 1 <= Len(tokens)
         THEN skipEnvArguments(tokens, idx + 2)
         ELSE skipEnvArguments(tokens, idx + 1)
  ELSE idx

\* the inner loop of the sudo branch (lines 186-191)
RECURSIVE skipSudoOptions(_, _)
skipSudoOptions(tokens, idx) ==
  IF idx <= Len(tokens) /\ startsWith(tokens[idx], "-")
  THEN IF normalizeCommandName(tokens[idx]) \in SUDO_OPTIONS_WITH_VALUE
          /\ idx + 1 <= Len(tokens)
       THEN skipSudoOptions(tokens, idx + 2)
       ELSE skipSudoOptions(tokens, idx + 1)
  ELSE idx

\* while (idx < tokens.length && tokens[idx].startsWith("-")) idx += 1;
RECURSIVE skipOptions(_, _)
skipOptions(tokens, idx) ==
  IF idx <= Len(tokens) /\ startsWith(tokens[idx], "-")
  THEN skipOptions(tokens, idx + 1)
  ELSE idx

\* afterWrapper without the sudo branch (lines 184-193): sudo is taken as the command
afterWrapperExceptSudo(tokens, idx, token) ==
  IF token = "env" THEN skipEnvArguments(tokens, idx + 1)
  ELSE IF token = "command" \/ token = "nohup" \/ token = "time"
    THEN skipOptions(tokens, idx + 1)
  ELSE 0

\* Where the outer loop goes on after the command name token at idx: past a wrapper
\* and its options, or nowhere (0) when token is the effective command.
afterWrapper(tokens, idx, token) ==
  IF token = "env" THEN skipEnvArguments(tokens, idx + 1)
  ELSE IF token = "sudo" THEN skipSudoOptions(tokens, idx + 1)
  ELSE IF token = "command" \/ token = "nohup" \/ token = "time"
    THEN skipOptions(tokens, idx + 1)
  ELSE 0

\* return [token, ...tokens.slice(idx + 1)]
effectiveCommand(tokens, idx, token) == <<token>> \o SubSeq(tokens, idx + 1, Len(tokens))

\* one turn of the outer loop (lines 153-204) from idx0; next is where it goes on
RECURSIVE normalizeFrom(_, _)
normalizeTurn(tokens, idx, token, next) ==
  IF next = 0 THEN effectiveCommand(tokens, idx, token) ELSE normalizeFrom(tokens, next)

normalizeAt(tokens, idx, token) ==
  normalizeTurn(tokens, idx, token, afterWrapper(tokens, idx, token))

normalizeAfterAssignments(tokens, idx) ==
  IF idx > Len(tokens) THEN <<>>
  ELSE normalizeAt(tokens, idx, normalizeCommandName(tokens[idx]))

normalizeFrom(tokens, idx0) ==
  IF idx0 > Len(tokens) THEN <<>>
  ELSE normalizeAfterAssignments(tokens, skipEnvAssignments(tokens, idx0))

normalizeInvocationTokensBody(tokens) == normalizeFrom(tokens, 1)

(***************************************************************************)
(* canonicalizePrefix (src/index.ts 209-214)                               *)
(***************************************************************************)
Undefined == [defined |-> FALSE, value |-> ""]
Defined(s) == [defined |-> TRUE, value |-> s]

\* JavaScript truthiness of a string | undefined: undefined and "" are falsy.
Truthy(v) == v.defined /\ v.value # ""

\* lines 212-213
joinedOrUndefined(normalized) ==
  IF Len(normalized) = 0 THEN Undefined ELSE Defined(join(normalized, " "))

canonicalizePrefixBody(input) ==
  joinedOrUndefined(normalizeInvocationTokensBody(tokenizeShellWordsBody(trim(input))))

(***************************************************************************)
(* The four parsing functions are pure, and the model calls them on a      *)
(* small set of strings over and over.  Each is evaluated once on every    *)
(* string the handlers are known to pass to it and the result is kept in a *)
(* table; a call looks its argument up and evaluates the function itself   *)
(* when the argument is not in the table.  The value is the same either    *)
(* way.                                                                    *)
(***************************************************************************)
KnownPrefixes ==
  PrefixArgs \cup ConfigPrefixes \cup EvalPrefixes \cup RawPrefixes \cup CanonicalOfRawPrefixes
    \cup Elements(ParsePrefixes)

KnownCommands == Commands \cup EvalCommands

KnownSegments ==
  {"echo hi", "gcloud compute instances list", "sudo kubectl get pods", "grep web",
   "FOO=1 env", "gcloud auth list"}

KnownStrings == KnownPrefixes \cup KnownCommands \cup KnownSegments

splitShellSegmentsTable == [s \in KnownCommands |-> splitShellSegmentsBody(s)]

tokenizeShellWordsTable == [s \in KnownStrings |-> tokenizeShellWordsBody(s)]

normalizeInvocationTokensTable ==
  [tokens \in {tokenizeShellWordsBody(s) : s \in KnownStrings} |->
     normalizeInvocationTokensBody(tokens)]

canonicalizePrefixTable == [s \in KnownPrefixes |-> canonicalizePrefixBody(s)]

\* table[key] when the table has the key, and otherwise value
lookup(table, key, value) == IF key \in DOMAIN table THEN table[key] ELSE value

splitShellSegments(command) ==
  lookup(splitShellSegmentsTable, command, splitShellSegmentsBody(command))

tokenizeShellWords(segment) ==
  lookup(tokenizeShellWordsTable, segment, tokenizeShellWordsBody(segment))

normalizeInvocationTokens(tokens) ==
  lookup(normalizeInvocationTokensTable, tokens, normalizeInvocationTokensBody(tokens))

canonicalizePrefix(input) ==
  lookup(canonicalizePrefixTable, input, canonicalizePrefixBody(input))

(***************************************************************************)
(* buildRules (src/index.ts 216-232)                                       *)
(***************************************************************************)
PrefixRule(prefix, tokens) ==
  [prefix |-> prefix, tokens |-> tokens, tokenCount |-> Len(tokens)]

\* lines 221-228: if (!canonical) continue; ... rules.push({...})
pushRule(rules, canonical) ==
  IF ~Truthy(canonical) THEN rules
  ELSE Append(rules, PrefixRule(canonical.value, tokenizeShellWords(canonical.value)))

\* one iteration of the loop of buildRules (lines 219-229)
buildRule(rules, prefix) == pushRule(rules, canonicalizePrefix(prefix))

RECURSIVE buildRulesFrom(_, _, _)
buildRulesFrom(prefixes, i, rules) ==
  IF i > Len(prefixes) THEN rules
  ELSE buildRulesFrom(prefixes, i + 1, buildRule(rules, prefixes[i]))

buildRules(prefixes) == buildRulesFrom(prefixes, 1, <<>>)

(***************************************************************************)
(* isPrefixMatch ... decideLayer (src/index.ts 234-290)                    *)
(***************************************************************************)
\* isPrefixMatch without the test ruleTokens.length === 0 of line 238
isPrefixMatchOfAnyLength(invocationTokens, ruleTokens) ==
  IF Len(ruleTokens) > Len(invocationTokens) THEN FALSE
  ELSE \A i \in 1..Len(ruleTokens) : invocationTokens[i] = ruleTokens[i]

isPrefixMatch(invocationTokens, ruleTokens) ==
  IF Len(ruleTokens) = 0 \/ Len(ruleTokens) > Len(invocationTokens) THEN FALSE
  ELSE \A i \in 1..Len(ruleTokens) : invocationTokens[i] = ruleTokens[i]

matchingRules(invocationTokens, rules) ==
  LET matches(rule) == isPrefixMatch(invocationTokens, rule.tokens) IN
  SelectSeq(rules, matches)

maxTokenCount(rules) ==
  IF Len(rules) = 0 THEN -1
  ELSE CHOOSE n \in {rules[i].tokenCount : i \in 1..Len(rules)} :
         \A i \in 1..Len(rules) : rules[i].tokenCount <= n

\* rules.filter((rule) => rule.tokenCount === longest)
rulesOfLength(rules, longest) ==
  LET isLongest(rule) == rule.tokenCount = longest IN SelectSeq(rules, isLongest)

\* rules.map((rule) => rule.prefix)
prefixesOf(rules) == [i \in 1..Len(rules) |-> rules[i].prefix]

mostSpecificOfLength(rules, longest) ==
  IF longest < 0 THEN <<>> ELSE prefixesOf(rulesOfLength(rules, longest))

mostSpecificPrefixes(rules) == mostSpecificOfLength(rules, maxTokenCount(rules))

\* decideByLength with `permitLen > blockLen` at line 282: an equal-length tie
\* goes to block
decideByLengthStrict(permitLen, blockLen, blockMatches) ==
  IF permitLen < 0 /\ blockLen < 0 THEN [action |-> "none", matchedBlocks |-> <<>>]
  ELSE IF permitLen > blockLen THEN [action |-> "permit", matchedBlocks |-> <<>>]
  ELSE [action |-> "block", matchedBlocks |-> mostSpecificPrefixes(blockMatches)]

\* lines 277-289 of decideLayer, given the two maxima
decideByLength(permitLen, blockLen, blockMatches) ==
  IF permitLen < 0 /\ blockLen < 0 THEN [action |-> "none", matchedBlocks |-> <<>>]
  ELSE IF permitLen >= blockLen THEN [action |-> "permit", matchedBlocks |-> <<>>]
  ELSE [action |-> "block", matchedBlocks |-> mostSpecificPrefixes(blockMatches)]

decideLayer(permitMatches, blockMatches) ==
  decideByLength(maxTokenCount(permitMatches), maxTokenCount(blockMatches), blockMatches)

\* decideLayer(matchingRules(invocationTokens, permitRules),
\*             matchingRules(invocationTokens, blockRules))
layerDecision(invocationTokens, permitRules, blockRules) ==
  decideLayer(matchingRules(invocationTokens, permitRules),
              matchingRules(invocationTokens, blockRules))

(***************************************************************************)
(* isBlockedByPersistentRules, findBlockedInvocations (src/index.ts        *)
(* 292-359)                                                                *)
(***************************************************************************)
isBlockedByPersistentRules(prefix, persistentBlocked, persistentPermit) ==
  layerDecision(tokenizeShellWords(prefix), buildRules(persistentPermit),
                buildRules(persistentBlocked)).action = "block"

BlockedInvocation(invocation, matchedBlocks) ==
  [invocation |-> invocation, matchedBlocks |-> matchedBlocks]

\* lines 345-355: the persistent layer, consulted when the session layer is silent
afterPersistentDecision(blocked, invocation, persistentDecision) ==
  IF persistentDecision.action = "block"
  THEN Append(blocked, BlockedInvocation(invocation, persistentDecision.matchedBlocks))
  ELSE blocked

\* afterSessionDecision without the branch of lines 333-335: a session permit falls
\* through to the persistent layer
afterSessionDecisionFallingThrough(blocked, invocationTokens, invocation, sessionDecision, persistentBlockRules, persistentPermitRules) ==
  IF sessionDecision.action = "block"
  THEN Append(blocked, BlockedInvocation(invocation, sessionDecision.matchedBlocks))
  ELSE afterPersistentDecision(blocked, invocation,
         layerDecision(invocationTokens, persistentPermitRules, persistentBlockRules))

\* lines 333-355: what the session decision does to the list
afterSessionDecision(blocked, invocationTokens, invocation, sessionDecision, persistentBlockRules, persistentPermitRules) ==
  IF sessionDecision.action = "permit" THEN blocked
  ELSE IF sessionDecision.action = "block"
    THEN Append(blocked, BlockedInvocation(invocation, sessionDecision.matchedBlocks))
  ELSE afterPersistentDecision(blocked, invocation,
         layerDecision(invocationTokens, persistentPermitRules, persistentBlockRules))

\* evaluateInvocation consulting the persistent layer first: the session layer decides
\* only when the persistent layer is silent
evaluateInvocationPersistentFirst(blocked, invocationTokens, sessionBlockRules, sessionPermitRules, persistentBlockRules, persistentPermitRules) ==
  IF Len(invocationTokens) = 0 THEN blocked
  ELSE afterSessionDecision(blocked, invocationTokens, join(invocationTokens, " "),
         layerDecision(invocationTokens, persistentPermitRules, persistentBlockRules),
         sessionBlockRules, sessionPermitRules)

\* evaluateInvocation returning at the first blocked segment: later segments add no
\* record
evaluateInvocationFirstOnly(blocked, invocationTokens, sessionBlockRules, sessionPermitRules, persistentBlockRules, persistentPermitRules) ==
  IF Len(invocationTokens) = 0 \/ Len(blocked) > 0 THEN blocked
  ELSE afterSessionDecision(blocked, invocationTokens, join(invocationTokens, " "),
         layerDecision(invocationTokens, sessionPermitRules, sessionBlockRules),
         persistentBlockRules, persistentPermitRules)

\* lines 325-354: the loop body for a segment with the given normalized tokens
evaluateInvocation(blocked, invocationTokens, sessionBlockRules, sessionPermitRules, persistentBlockRules, persistentPermitRules) ==
  IF Len(invocationTokens) = 0 THEN blocked
  ELSE afterSessionDecision(blocked, invocationTokens, join(invocationTokens, " "),
         layerDecision(invocationTokens, sessionPermitRules, sessionBlockRules),
         persistentBlockRules, persistentPermitRules)

\* the body of the loop over the segments (lines 321-355): the list of blocked
\* invocations after this segment
evaluateSegment(blocked, segment, sessionBlockRules, sessionPermitRules, persistentBlockRules, persistentPermitRules) ==
  evaluateInvocation(blocked, normalizeInvocationTokens(tokenizeShellWords(segment)),
                     sessionBlockRules, sessionPermitRules,
                     persistentBlockRules, persistentPermitRules)

\* for (const segment of splitShellSegments(input)) { ... }
RECURSIVE evaluateSegments(_, _, _, _, _, _, _)
evaluateSegments(segments, i, blocked, sessionBlockRules, sessionPermitRules, persistentBlockRules, persistentPermitRules) ==
  IF i > Len(segments) THEN blocked
  ELSE evaluateSegments(segments, i + 1,
         evaluateSegment(blocked, segments[i], sessionBlockRules, sessionPermitRules,
                         persistentBlockRules, persistentPermitRules),
         sessionBlockRules, sessionPermitRules, persistentBlockRules, persistentPermitRules)

findBlockedInvocations(input, persistentBlocked, persistentPermit, sessionBlocked, sessionPermit) ==
  evaluateSegments(splitShellSegments(input), 1, <<>>,
                   buildRules(sessionBlocked), buildRules(sessionPermit),
                   buildRules(persistentBlocked), buildRules(persistentPermit))

(***************************************************************************)
(* formatList, formatBlockedInvocations (src/index.ts 361-373)             *)
(***************************************************************************)
joinOrNone(items) == IF Len(items) > 0 THEN join(items, ", ") ELSE "(none)"

formatList(values) == joinOrNone(sort(newSet(values)))

formatBlockedInvocations(blocked) ==
  join([i \in 1..Len(blocked) |->
          blocked[i].invocation \o " (matched: "
            \o join(blocked[i].matchedBlocks, " | ") \o ")"],
       "; ")

(***************************************************************************)
(* The configuration file at CONFIG_PATH and its two operations            *)
(* (src/index.ts 24-26, 375-445).                                          *)
(*                                                                         *)
(* A file is absent, or present and unreadable as the JSON the loader      *)
(* expects (malformed text, or an entry that is not a string: both throw   *)
(* inside the try block), or present with a parsed value whose two array   *)
(* fields may each be missing.                                             *)
(***************************************************************************)
CONFIG_PATH == "~/.pi/agent/extensions/bash-guard.json"
DEFAULT_BLOCKED_PREFIXES == <<"gcloud", "kubectl">>

NoArrays ==
  [hasBlocked |-> FALSE, blockedPrefixes |-> <<>>,
   hasPermitted |-> FALSE, permittedPrefixes |-> <<>>]

AbsentFile == [exists |-> FALSE, parses |-> FALSE, value |-> NoArrays]
UnparsableFile == [exists |-> TRUE, parses |-> FALSE, value |-> NoArrays]
JsonFile(value) == [exists |-> TRUE, parses |-> TRUE, value |-> value]

\* .filter(Boolean) on one mapped element
pushTruthy(out, canonical) ==
  IF Truthy(canonical) THEN Append(out, canonical.value) ELSE out

\* array.map((prefix) => canonicalizePrefix(prefix)).filter(Boolean)
RECURSIVE canonicalArrayFrom(_, _, _)
canonicalArrayFrom(array, i, out) ==
  IF i > Len(array) THEN out
  ELSE canonicalArrayFrom(array, i + 1, pushTruthy(out, canonicalizePrefix(array[i])))

canonicalArray(array) == canonicalArrayFrom(array, 1, <<>>)

\* new Set(array.map(canonicalizePrefix).filter(Boolean))
canonicalSet(array) == newSet(canonicalArray(array))

Loaded(blockedPrefixes, permittedPrefixes, existed, error) ==
  [blockedPrefixes |-> blockedPrefixes, permittedPrefixes |-> permittedPrefixes,
   existed |-> existed, error |-> error]

\* blockedSource ?? (permittedSource ? [] : DEFAULT_BLOCKED_PREFIXES)
blockedArrayOf(parsed) ==
  IF parsed.hasBlocked THEN parsed.blockedPrefixes
  ELSE IF parsed.hasPermitted THEN <<>> ELSE DEFAULT_BLOCKED_PREFIXES

\* permittedSource ?? []
permittedArrayOf(parsed) ==
  IF parsed.hasPermitted THEN parsed.permittedPrefixes ELSE <<>>

loadPersistedGuardConfig(file) ==
  IF ~file.exists
  THEN Loaded(canonicalSet(DEFAULT_BLOCKED_PREFIXES), <<>>, FALSE, Undefined)
  ELSE IF ~file.parses
  THEN Loaded(canonicalSet(DEFAULT_BLOCKED_PREFIXES), <<>>, TRUE,
              Defined("Unexpected end of JSON input"))
  ELSE Loaded(canonicalSet(blockedArrayOf(file.value)),
              canonicalSet(permittedArrayOf(file.value)), TRUE, Undefined)

\* the payload that savePersistedGuardConfig writes (lines 438-441)
savePayload(blockedPrefixes, permittedPrefixes) ==
  [hasBlocked |-> TRUE, blockedPrefixes |-> sort(blockedPrefixes),
   hasPermitted |-> TRUE, permittedPrefixes |-> sort(permittedPrefixes)]

\* What mkdirSync and writeFileSync (lines 443-444) do: "written" is success;
\* "EACCES" is one of them throwing, which leaves the file as it was.
SaveOutcomes == {"written", "EACCES"}

savePersistedGuardConfig(file, blockedPrefixes, permittedPrefixes, outcome) ==
  IF outcome = "written" THEN JsonFile(savePayload(blockedPrefixes, permittedPrefixes))
  ELSE file

saveThrows(outcome) == outcome # "written"

\* error instanceof Error ? error.message : String(error)
errorMessage(outcome) == outcome \o ": permission denied, open '" \o CONFIG_PATH \o "'"

(***************************************************************************)
(* The extension's state (src/index.ts 447-451) and what the host sees of  *)
(* a handler: the notifications it sent and the value it returned.         *)
(***************************************************************************)
VARIABLES
  persistentBlockedPrefixes,
  persistentPermitPrefixes,
  sessionBlockedPrefixes,
  sessionPermitPrefixes,
  configFile,       \* the file at CONFIG_PATH
  uiStatus,         \* the host's status text under the key "pi-bash-guard"
  handled,          \* the handler that ran last, its input and its save outcome
  notifications,    \* what that handler passed to ctx.ui.notify, in order
  returned,         \* the value that handler returned to the host
  lastBlocked,      \* the list `blocked` that handler computed (tool_call, user_bash)
  steps             \* how many handlers have run

ruleSets ==
  <<persistentBlockedPrefixes, persistentPermitPrefixes,
    sessionBlockedPrefixes, sessionPermitPrefixes>>

vars ==
  <<persistentBlockedPrefixes, persistentPermitPrefixes, sessionBlockedPrefixes,
    sessionPermitPrefixes, configFile, uiStatus, handled, notifications, returned,
    lastBlocked, steps>>

MaxSteps == 4

\* The configuration files a session may start with: none; one that does not parse;
\* "{}"; files the program has written; a file with only permittedPrefixes; a file
\* with an entry that normalizes to nothing.
StoredConfigs ==
  { AbsentFile,
    UnparsableFile,
    JsonFile(NoArrays),
    JsonFile([hasBlocked |-> TRUE, blockedPrefixes |-> <<"kubectl">>,
              hasPermitted |-> TRUE, permittedPrefixes |-> <<"kubectl get">>]),
    JsonFile([hasBlocked |-> TRUE, blockedPrefixes |-> <<"sudo kubectl">>,
              hasPermitted |-> TRUE, permittedPrefixes |-> <<"kubectl">>]),
    JsonFile([NoArrays EXCEPT !.hasPermitted = TRUE,
                              !.permittedPrefixes = <<"kubectl get">>]),
    JsonFile([hasBlocked |-> TRUE, blockedPrefixes |-> <<"env", "gcloud">>,
              hasPermitted |-> TRUE, permittedPrefixes |-> <<>>]) }

Notice(message, level) == [message |-> message, level |-> level]

ReturnedUndefined == [type |-> "undefined"]

usage ==
  Notice("Commands: /bash-guard-block <prefix>, /bash-guard-permit <prefix>, /bash-guard-block-persist <prefix>, /bash-guard-permit-persist <prefix>, /bash-guard-reset, /bash-guard-status",
         "info")

Handled(handler, input, save) == [handler |-> handler, input |-> input, save |-> save]

Init ==
  /\ persistentBlockedPrefixes = <<>>
  /\ persistentPermitPrefixes = <<>>
  /\ sessionBlockedPrefixes = <<>>
  /\ sessionPermitPrefixes = <<>>
  /\ configFile \in StoredConfigs
  /\ uiStatus = Defined("bash-guard")
  /\ handled = Handled("piBashGuardExtension", "", "none")
  /\ notifications = <<>>
  /\ returned = ReturnedUndefined
  /\ lastBlocked = <<>>
  /\ steps = 0

\* The host emits session_start before it dispatches a command or a tool event.
SessionStarted == handled.handler # "piBashGuardExtension"

(***************************************************************************)
(* /bash-guard-block-persist (src/index.ts 462-521)                        *)
(***************************************************************************)
\* coveredByExistingBlock never holding: lines 484-487 add the block rule whenever the
\* prefix is not in the block set
neverCoveredByExistingBlock(blockedSet, permitSet, prefix) == FALSE

\* lines 475-482
coveredByExistingBlock(blockedSet, permitSet, prefix) ==
  /\ has(permitSet, prefix)
  /\ ~has(blockedSet, prefix)
  /\ isBlockedByPersistentRules(prefix, blockedSet, delete(permitSet, prefix))

\* lines 472-487, given the value of coveredByExistingBlock
blockPersistRecord(blockedSet, permitSet, prefix, covered) ==
  [blocked |-> IF ~has(blockedSet, prefix) /\ ~covered
               THEN add(blockedSet, prefix) ELSE blockedSet,
   permit  |-> delete(permitSet, prefix),
   wasBlocked |-> has(blockedSet, prefix),
   removedPermit |-> has(permitSet, prefix),
   coveredByExistingBlock |-> covered,
   addedBlock |-> ~has(blockedSet, prefix) /\ ~covered]

\* lines 472-487: the in-memory mutation made before the save
blockPersistMutation(blockedSet, permitSet, prefix) ==
  blockPersistRecord(blockedSet, permitSet, prefix,
                     coveredByExistingBlock(blockedSet, permitSet, prefix))

\* blockPersistRollback without line 516: the removed permit is not added back
blockPersistRollbackOfBlockOnly(m, prefix) ==
  [blocked |-> IF m.addedBlock THEN delete(m.blocked, prefix) ELSE m.blocked,
   permit  |-> m.permit]

\* lines 515-516: the catch block's rollback
blockPersistRollback(m, prefix) ==
  [blocked |-> IF m.addedBlock THEN delete(m.blocked, prefix) ELSE m.blocked,
   permit  |-> IF m.removedPermit THEN add(m.permit, prefix) ELSE m.permit]

\* lines 494-513: the message after a successful save
blockPersistMessage(m, prefix) ==
  IF m.wasBlocked /\ ~m.removedPermit THEN "Already persistently blocked: " \o prefix
  ELSE IF m.removedPermit /\ m.coveredByExistingBlock
    THEN "Removed persistent permit: " \o prefix
         \o ". Existing persistent block prefixes already cover it, so no redundant block rule was added."
  ELSE IF m.removedPermit
    THEN "Persistently blocked: " \o prefix \o " (removed persistent permit for same prefix)."
  ELSE "Persistently blocked: " \o prefix

\* lines 489-519: the save of the mutation m, and the rollback when it throws
BlockPersistSave(args, prefix, outcome, m) ==
  /\ handled' = Handled("bash-guard-block-persist", args, outcome)
  /\ configFile' = savePersistedGuardConfig(configFile, m.blocked, m.permit, outcome)
  /\ IF saveThrows(outcome)
     THEN /\ persistentBlockedPrefixes' = blockPersistRollback(m, prefix).blocked
          /\ persistentPermitPrefixes' = blockPersistRollback(m, prefix).permit
          /\ notifications' =
               <<Notice("Failed to persist guard config: " \o errorMessage(outcome),
                        "error")>>
     ELSE /\ persistentBlockedPrefixes' = m.blocked
          /\ persistentPermitPrefixes' = m.permit
          /\ notifications' = <<Notice(blockPersistMessage(m, prefix), "info")>>

\* the handler once the argument is canonicalized (lines 465-519)
BlockPersistWith(args, prefix) ==
  IF ~Truthy(prefix)
  THEN /\ notifications' =
            <<Notice("Usage: /bash-guard-block-persist <prefix>", "warning"), usage>>
       /\ handled' = Handled("bash-guard-block-persist", args, "none")
       /\ UNCHANGED <<persistentBlockedPrefixes, persistentPermitPrefixes, configFile>>
  ELSE \E outcome \in SaveOutcomes :
         BlockPersistSave(args, prefix.value, outcome,
                          blockPersistMutation(persistentBlockedPrefixes,
                                               persistentPermitPrefixes, prefix.value))

BashGuardBlockPersist(args) ==
  /\ SessionStarted
  /\ steps < MaxSteps
  /\ steps' = steps + 1
  /\ returned' = ReturnedUndefined
  /\ UNCHANGED <<sessionBlockedPrefixes, sessionPermitPrefixes, uiStatus, lastBlocked>>
  /\ BlockPersistWith(args, canonicalizePrefix(args))

(***************************************************************************)
(* /bash-guard-permit-persist (src/index.ts 523-559)                       *)
(***************************************************************************)
\* lines 533-535
permitPersistMutation(blockedSet, permitSet, prefix) ==
  [blocked |-> delete(blockedSet, prefix),
   permit  |-> add(permitSet, prefix),
   wasPermitted |-> has(permitSet, prefix),
   removedBlock |-> has(blockedSet, prefix)]

\* lines 553-554
permitPersistRollback(m, prefix) ==
  [blocked |-> IF m.removedBlock THEN add(m.blocked, prefix) ELSE m.blocked,
   permit  |-> IF ~m.wasPermitted THEN delete(m.permit, prefix) ELSE m.permit]

\* lines 542-551
permitPersistMessage(m, prefix) ==
  IF m.wasPermitted /\ ~m.removedBlock THEN "Already persistently permitted: " \o prefix
  ELSE IF m.removedBlock
    THEN "Persistently permitted: " \o prefix \o " (removed persistent block for same prefix)."
  ELSE "Persistently permitted: " \o prefix

\* lines 537-557: the save of the mutation m, and the rollback when it throws
PermitPersistSave(args, prefix, outcome, m) ==
  /\ handled' = Handled("bash-guard-permit-persist", args, outcome)
  /\ configFile' = savePersistedGuardConfig(configFile, m.blocked, m.permit, outcome)
  /\ IF saveThrows(outcome)
     THEN /\ persistentBlockedPrefixes' = permitPersistRollback(m, prefix).blocked
          /\ persistentPermitPrefixes' = permitPersistRollback(m, prefix).permit
          /\ notifications' =
               <<Notice("Failed to persist guard config: " \o errorMessage(outcome),
                        "error")>>
     ELSE /\ persistentBlockedPrefixes' = m.blocked
          /\ persistentPermitPrefixes' = m.permit
          /\ notifications' = <<Notice(permitPersistMessage(m, prefix), "info")>>

\* PermitPersistWith without the return of lines 527-531: the handler goes on to the
\* mutation and the save whatever canonicalizePrefix returned
PermitPersistWithoutUsage(args, prefix) ==
  \E outcome \in SaveOutcomes :
    PermitPersistSave(args, prefix.value, outcome,
                      permitPersistMutation(persistentBlockedPrefixes,
                                            persistentPermitPrefixes, prefix.value))

\* the handler once the argument is canonicalized (lines 526-557)
PermitPersistWith(args, prefix) ==
  IF ~Truthy(prefix)
  THEN /\ notifications' =
            <<Notice("Usage: /bash-guard-permit-persist <prefix>", "warning"), usage>>
       /\ handled' = Handled("bash-guard-permit-persist", args, "none")
       /\ UNCHANGED <<persistentBlockedPrefixes, persistentPermitPrefixes, configFile>>
  ELSE \E outcome \in SaveOutcomes :
         PermitPersistSave(args, prefix.value, outcome,
                           permitPersistMutation(persistentBlockedPrefixes,
                                                 persistentPermitPrefixes, prefix.value))

BashGuardPermitPersist(args) ==
  /\ SessionStarted
  /\ steps < MaxSteps
  /\ steps' = steps + 1
  /\ returned' = ReturnedUndefined
  /\ UNCHANGED <<sessionBlockedPrefixes, sessionPermitPrefixes, uiStatus, lastBlocked>>
  /\ PermitPersistWith(args, canonicalizePrefix(args))

(***************************************************************************)
(* /bash-guard-block, /bash-guard-permit, /bash-guard-reset,               *)
(* /bash-guard-status (src/index.ts 561-624)                               *)
(***************************************************************************)
\* BlockWith with sessionPermitPrefixes.clear() in place of the delete of line 571
BlockWithClearingPermits(prefix) ==
  IF ~Truthy(prefix)
  THEN /\ notifications' = <<Notice("Usage: /bash-guard-block <prefix>", "warning"), usage>>
       /\ UNCHANGED <<sessionBlockedPrefixes, sessionPermitPrefixes>>
  ELSE /\ sessionPermitPrefixes' = <<>>
       /\ sessionBlockedPrefixes' = add(sessionBlockedPrefixes, prefix.value)
       /\ notifications' = <<Notice("Blocked for this session: " \o prefix.value, "info")>>

\* the handler once the argument is canonicalized (lines 564-574)
BlockWith(prefix) ==
  IF ~Truthy(prefix)
  THEN /\ notifications' = <<Notice("Usage: /bash-guard-block <prefix>", "warning"), usage>>
       /\ UNCHANGED <<sessionBlockedPrefixes, sessionPermitPrefixes>>
  ELSE /\ sessionPermitPrefixes' = delete(sessionPermitPrefixes, prefix.value)
       /\ sessionBlockedPrefixes' = add(sessionBlockedPrefixes, prefix.value)
       /\ notifications' = <<Notice("Blocked for this session: " \o prefix.value, "info")>>

BashGuardBlock(args) ==
  /\ SessionStarted
  /\ steps < MaxSteps
  /\ steps' = steps + 1
  /\ returned' = ReturnedUndefined
  /\ handled' = Handled("bash-guard-block", args, "none")
  /\ UNCHANGED <<persistentBlockedPrefixes, persistentPermitPrefixes, configFile, uiStatus,
                 lastBlocked>>
  /\ BlockWith(canonicalizePrefix(args))

\* PermitWith without sessionPermitPrefixes.add(prefix) of line 588
PermitWithoutAdd(prefix) ==
  IF ~Truthy(prefix)
  THEN /\ notifications' = <<Notice("Usage: /bash-guard-permit <prefix>", "warning"), usage>>
       /\ UNCHANGED <<sessionBlockedPrefixes, sessionPermitPrefixes>>
  ELSE /\ sessionBlockedPrefixes' = delete(sessionBlockedPrefixes, prefix.value)
       /\ sessionPermitPrefixes' = sessionPermitPrefixes
       /\ notifications' = <<Notice("Permitted for this session: " \o prefix.value, "info")>>

\* the handler once the argument is canonicalized (lines 580-590)
PermitWith(prefix) ==
  IF ~Truthy(prefix)
  THEN /\ notifications' = <<Notice("Usage: /bash-guard-permit <prefix>", "warning"), usage>>
       /\ UNCHANGED <<sessionBlockedPrefixes, sessionPermitPrefixes>>
  ELSE /\ sessionBlockedPrefixes' = delete(sessionBlockedPrefixes, prefix.value)
       /\ sessionPermitPrefixes' = add(sessionPermitPrefixes, prefix.value)
       /\ notifications' = <<Notice("Permitted for this session: " \o prefix.value, "info")>>

BashGuardPermit(args) ==
  /\ SessionStarted
  /\ steps < MaxSteps
  /\ steps' = steps + 1
  /\ returned' = ReturnedUndefined
  /\ handled' = Handled("bash-guard-permit", args, "none")
  /\ UNCHANGED <<persistentBlockedPrefixes, persistentPermitPrefixes, configFile, uiStatus,
                 lastBlocked>>
  /\ PermitWith(canonicalizePrefix(args))

\* the decimal text of a one-digit count
countText(n) == charAt(Digits, n + 1)

resetMessage(permits, blocks) ==
  IF permits + blocks > 0
  THEN "Reset session guard overrides (cleared " \o countText(permits) \o " permit"
       \o (IF permits = 1 THEN "" ELSE "s") \o ", " \o countText(blocks) \o " block"
       \o (IF blocks = 1 THEN "" ELSE "s") \o ")."
  ELSE "No session guard overrides to reset."

\* BashGuardReset without sessionBlockedPrefixes.clear() of line 599
BashGuardResetOfPermitsOnly ==
  /\ SessionStarted
  /\ steps < MaxSteps
  /\ steps' = steps + 1
  /\ returned' = ReturnedUndefined
  /\ handled' = Handled("bash-guard-reset", "", "none")
  /\ sessionPermitPrefixes' = <<>>
  /\ sessionBlockedPrefixes' = sessionBlockedPrefixes
  /\ notifications' =
       <<Notice(resetMessage(Len(sessionPermitPrefixes), Len(sessionBlockedPrefixes)), "info")>>
  /\ UNCHANGED <<persistentBlockedPrefixes, persistentPermitPrefixes, configFile, uiStatus,
                 lastBlocked>>

BashGuardReset ==
  /\ SessionStarted
  /\ steps < MaxSteps
  /\ steps' = steps + 1
  /\ returned' = ReturnedUndefined
  /\ handled' = Handled("bash-guard-reset", "", "none")
  /\ sessionPermitPrefixes' = <<>>
  /\ sessionBlockedPrefixes' = <<>>
  /\ notifications' =
       <<Notice(resetMessage(Len(sessionPermitPrefixes), Len(sessionBlockedPrefixes)), "info")>>
  /\ UNCHANGED <<persistentBlockedPrefixes, persistentPermitPrefixes, configFile, uiStatus,
                 lastBlocked>>

BashGuardStatus ==
  /\ SessionStarted
  /\ steps < MaxSteps
  /\ steps' = steps + 1
  /\ returned' = ReturnedUndefined
  /\ handled' = Handled("bash-guard-status", "", "none")
  /\ notifications' =
       <<Notice(join(<<"Persistent blocks: " \o formatList(persistentBlockedPrefixes),
                       "Persistent permits: " \o formatList(persistentPermitPrefixes),
                       "Session blocks: " \o formatList(sessionBlockedPrefixes),
                       "Session permits: " \o formatList(sessionPermitPrefixes),
                       "Resolution order: session rules first, then persistent rules; within each layer, more specific prefix wins, ties go to permit.">>,
                     "\n"),
                "info")>>
  /\ UNCHANGED <<ruleSets, configFile, uiStatus, lastBlocked>>

(***************************************************************************)
(* session_start (src/index.ts 626-656)                                    *)
(***************************************************************************)
\* lines 636-646: the save of the defaults when there was no file
SessionStartSave(loaded, outcome) ==
  /\ handled' = Handled("session_start", "", outcome)
  /\ configFile' = savePersistedGuardConfig(configFile, loaded.blockedPrefixes,
                                            loaded.permittedPrefixes, outcome)
  /\ notifications' =
       IF saveThrows(outcome)
       THEN <<Notice("Failed to initialize guard config: " \o errorMessage(outcome), "error")>>
       ELSE <<>>

\* SessionStartWith with the test of line 635 widened to !loaded.existed || loaded.error:
\* a file that could not be read is overwritten with the defaults
SessionStartWithSaveOnError(loaded) ==
  /\ persistentBlockedPrefixes' = loaded.blockedPrefixes
  /\ persistentPermitPrefixes' = loaded.permittedPrefixes
  /\ sessionBlockedPrefixes' = <<>>
  /\ sessionPermitPrefixes' = <<>>
  /\ uiStatus' = Undefined
  /\ IF ~loaded.existed \/ Truthy(loaded.error)
     THEN \E outcome \in SaveOutcomes : SessionStartSave(loaded, outcome)
     ELSE /\ handled' = Handled("session_start", "", "none")
          /\ configFile' = configFile
          /\ notifications' = <<>>

\* the handler once the configuration is loaded (lines 628-655)
SessionStartWith(loaded) ==
  /\ persistentBlockedPrefixes' = loaded.blockedPrefixes
  /\ persistentPermitPrefixes' = loaded.permittedPrefixes
  /\ sessionBlockedPrefixes' = <<>>
  /\ sessionPermitPrefixes' = <<>>
  /\ uiStatus' = Undefined
  /\ IF ~loaded.existed
     THEN \E outcome \in SaveOutcomes : SessionStartSave(loaded, outcome)
     ELSE /\ handled' = Handled("session_start", "", "none")
          /\ configFile' = configFile
          /\ notifications' =
               IF Truthy(loaded.error)
               THEN <<Notice("Failed reading " \o CONFIG_PATH \o ", using defaults (blocks: "
                               \o formatList(loaded.blockedPrefixes) \o ", permits: "
                               \o formatList(loaded.permittedPrefixes) \o "): "
                               \o loaded.error.value,
                             "warning")>>
               ELSE <<>>

SessionStart ==
  /\ steps < MaxSteps
  /\ steps' = steps + 1
  /\ returned' = ReturnedUndefined
  /\ lastBlocked' = <<>>
  /\ SessionStartWith(loadPersistedGuardConfig(configFile))

(***************************************************************************)
(* tool_call, user_bash (src/index.ts 658-705)                             *)
(***************************************************************************)
blockedReason(blocked) ==
  "Blocked bash invocation(s): " \o formatBlockedInvocations(blocked)
    \o ". Use /bash-guard-permit <prefix> to allow in this session."

\* event.input.command of a tool_call: a string, or something else
StringInput(text) == [isString |-> TRUE, text |-> text]
OtherInput == [isString |-> FALSE, text |-> ""]

\* typeof event.input.command === "string" ? event.input.command : ""
commandOf(input) == IF input.isString THEN input.text ELSE ""

\* ToolCallBlocked with a reason that names the first blocked invocation only
ToolCallBlockedFirstOnly(blocked) ==
  /\ lastBlocked' = blocked
  /\ returned' =
       IF Len(blocked) = 0 THEN ReturnedUndefined
       ELSE [type |-> "block", block |-> TRUE, reason |-> blockedReason(<<blocked[1]>>)]

\* lines 665-679: the handler once findBlockedInvocations has returned
ToolCallBlocked(blocked) ==
  /\ lastBlocked' = blocked
  /\ returned' =
       IF Len(blocked) = 0 THEN ReturnedUndefined
       ELSE [type |-> "block", block |-> TRUE, reason |-> blockedReason(blocked)]

ToolCall(toolName, input) ==
  /\ SessionStarted
  /\ steps < MaxSteps
  /\ steps' = steps + 1
  /\ handled' = Handled("tool_call:" \o toolName, input.text, "none")
  /\ notifications' = <<>>
  /\ UNCHANGED <<ruleSets, configFile, uiStatus>>
  /\ IF toolName # "bash" \/ commandOf(input) = ""
     THEN /\ returned' = ReturnedUndefined
          /\ lastBlocked' = <<>>
     ELSE ToolCallBlocked(
            findBlockedInvocations(commandOf(input),
                                   persistentBlockedPrefixes, persistentPermitPrefixes,
                                   sessionBlockedPrefixes, sessionPermitPrefixes))

\* lines 690-704: the handler once findBlockedInvocations has returned
UserBashBlocked(blocked) ==
  /\ lastBlocked' = blocked
  /\ IF Len(blocked) = 0
     THEN /\ returned' = ReturnedUndefined
          /\ notifications' = <<>>
     ELSE /\ notifications' = <<Notice(blockedReason(blocked), "warning")>>
          /\ returned' = [type |-> "result", output |-> blockedReason(blocked),
                          exitCode |-> 1, cancelled |-> FALSE, truncated |-> FALSE]

UserBash(command) ==
  /\ SessionStarted
  /\ steps < MaxSteps
  /\ steps' = steps + 1
  /\ handled' = Handled("user_bash", command, "none")
  /\ UNCHANGED <<ruleSets, configFile, uiStatus>>
  /\ UserBashBlocked(
       findBlockedInvocations(command,
                              persistentBlockedPrefixes, persistentPermitPrefixes,
                              sessionBlockedPrefixes, sessionPermitPrefixes))

ToolNames == {"bash", "read"}
ToolInputs(commands) == {StringInput(c) : c \in commands \cup {""}} \cup {OtherInput}

Next ==
  \/ \E args \in PrefixArgs : BashGuardBlockPersist(args)
  \/ \E args \in PrefixArgs : BashGuardPermitPersist(args)
  \/ \E args \in PrefixArgs : BashGuardBlock(args)
  \/ \E args \in PrefixArgs : BashGuardPermit(args)
  \/ BashGuardReset
  \/ BashGuardStatus
  \/ SessionStart
  \/ \E toolName \in ToolNames, input \in ToolInputs(Commands) : ToolCall(toolName, input)
  \/ \E command \in Commands : UserBash(command)

Spec == Init /\ [][Next]_vars

(***************************************************************************)
(* The evaluation of a command string as a function of the four rule sets: *)
(* a specification that starts in a session whose rule sets are drawn from *)
(* EvalPrefixes, each prefix being, in each layer, a block rule, a permit   *)
(* rule or neither, and that runs one tool_call or user_bash.              *)
(***************************************************************************)
Roles == {"neither", "block", "permit"}

\* the elements of a set of strings as Array.prototype.sort() orders them
RECURSIVE sortedSeq(_)
sortedSeq(strings) ==
  IF strings = {} THEN <<>>
  ELSE LET first == CHOOSE x \in strings : \A y \in strings : x = y \/ stringLess(x, y)
       IN <<first>> \o sortedSeq(strings \ {first})

withRole(roleOf, role) == sortedSeq({p \in EvalPrefixes : roleOf[p] = role})

EvalInit ==
  \E sessionRole \in [EvalPrefixes -> Roles], persistentRole \in [EvalPrefixes -> Roles] :
    /\ persistentBlockedPrefixes = withRole(persistentRole, "block")
    /\ persistentPermitPrefixes = withRole(persistentRole, "permit")
    /\ sessionBlockedPrefixes = withRole(sessionRole, "block")
    /\ sessionPermitPrefixes = withRole(sessionRole, "permit")
    /\ configFile = JsonFile(savePayload(withRole(persistentRole, "block"),
                                         withRole(persistentRole, "permit")))
    /\ uiStatus = Undefined
    /\ handled = Handled("session_start", "", "none")
    /\ notifications = <<>>
    /\ returned = ReturnedUndefined
    /\ lastBlocked = <<>>
    /\ steps = MaxSteps - 1

EvalNext ==
  \/ \E toolName \in ToolNames, input \in ToolInputs(EvalCommands) : ToolCall(toolName, input)
  \/ \E command \in EvalCommands : UserBash(command)

EvalSpec == EvalInit /\ [][EvalNext]_vars

(***************************************************************************)
(* The policy commands as functions of their raw argument: a specification *)
(* that starts in a session whose rule sets are drawn from CommandPrefixes *)
(* and runs two steps, each a policy command on an argument of RawPrefixes *)
(* or a session start.                                                     *)
(***************************************************************************)
CommandPrefixes == {"kubectl", "kubectl get"}

CommandInit ==
  \E sessionRole \in [CommandPrefixes -> Roles], persistentRole \in [CommandPrefixes -> Roles] :
    /\ persistentBlockedPrefixes = sortedSeq({p \in CommandPrefixes : persistentRole[p] = "block"})
    /\ persistentPermitPrefixes = sortedSeq({p \in CommandPrefixes : persistentRole[p] = "permit"})
    /\ sessionBlockedPrefixes = sortedSeq({p \in CommandPrefixes : sessionRole[p] = "block"})
    /\ sessionPermitPrefixes = sortedSeq({p \in CommandPrefixes : sessionRole[p] = "permit"})
    /\ configFile = JsonFile(savePayload(sortedSeq({p \in CommandPrefixes : persistentRole[p] = "block"}),
                                         sortedSeq({p \in CommandPrefixes : persistentRole[p] = "permit"})))
    /\ uiStatus = Undefined
    /\ handled = Handled("session_start", "", "none")
    /\ notifications = <<>>
    /\ returned = ReturnedUndefined
    /\ lastBlocked = <<>>
    /\ steps = MaxSteps - 2

CommandNext ==
  \/ \E args \in RawPrefixes : BashGuardBlockPersist(args)
  \/ \E args \in RawPrefixes : BashGuardPermitPersist(args)
  \/ \E args \in RawPrefixes : BashGuardBlock(args)
  \/ \E args \in RawPrefixes : BashGuardPermit(args)
  \/ SessionStart

CommandSpec == CommandInit /\ [][CommandNext]_vars

(***************************************************************************)
(* The parsing of a command string: a specification that starts in a       *)
(* session with fixed rule sets and runs user_bash, on every string        *)
(* of at most MaxLen characters of ParseAlphabet, on every sequence of at  *)
(* most MaxWords words of ParseWords joined by spaces, and on some longer   *)
(* command strings.                                                        *)
(***************************************************************************)
MaxLen == 4

MaxWords == 3

ParseAlphabet == {"a", "b", " ", ";", "\"", "'", "\\"}

ParseWords ==
  {"sudo", "env", "time", "-u", "--unset", "-x", "FOO=1", "root", "kubectl", "/usr/bin/Sudo"}

\* the strings made of at most n parts joined by sep, the empty string among them
RECURSIVE joinedUpTo(_, _, _)
joinedUpTo(n, parts, sep) ==
  IF n = 0 THEN {""}
  ELSE LET shorter == joinedUpTo(n - 1, parts, sep) IN
       shorter \cup {IF s = "" THEN part ELSE s \o sep \o part : s \in shorter, part \in parts}

ParseCommands ==
  joinedUpTo(MaxLen, ParseAlphabet, "") \cup joinedUpTo(MaxWords, ParseWords, " ")
    \cup {"a; b | c", "a&b", "a\nb", "echo \"a;b\"", "a \"b c\" d", "a\tb",
          "sudo env FOO=1 kubectl get pods", "sudo -u root kubectl get pods",
          "kubectl GET pods", "KUBECTL get", "command -v nohup kubectl get",
          "echo '\\';kubectl get pods"}

ParseInit ==
  /\ persistentBlockedPrefixes = <<"gcloud", "kubectl">>
  /\ persistentPermitPrefixes = <<>>
  /\ sessionBlockedPrefixes = ParsePrefixes
  /\ sessionPermitPrefixes = <<>>
  /\ configFile = JsonFile(savePayload(<<"gcloud", "kubectl">>, <<>>))
  /\ uiStatus = Undefined
  /\ handled = Handled("session_start", "", "none")
  /\ notifications = <<>>
  /\ returned = ReturnedUndefined
  /\ lastBlocked = <<>>
  /\ steps = MaxSteps - 1

\* the step bound of UserBash is tested before the commands are enumerated
ParseNext == steps < MaxSteps /\ \E command \in ParseCommands : UserBash(command)

ParseSpec == ParseInit /\ [][ParseNext]_vars

(***************************************************************************)
(* The terms the properties below are stated in.                           *)
(***************************************************************************)
\* the last handler evaluated a command string
Evaluated == handled.handler \in {"tool_call:bash", "user_bash"}

\* the segments of the command string it evaluated, in order
evaluatedSegments == splitShellSegments(handled.input)

\* the normalized invocation of a segment
invocationOf(segment) == normalizeInvocationTokens(tokenizeShellWords(segment))

\* the rule compiled from a member of a rule set matches the tokens
ruleMatches(rule, tokens) ==
  /\ Len(rule.tokens) > 0
  /\ Len(rule.tokens) <= Len(tokens)
  /\ SubSeq(tokens, 1, Len(rule.tokens)) = rule.tokens

\* the rules of a rule set that match the tokens, and their token counts
matchesIn(prefixes, tokens) ==
  {rule \in Elements(buildRules(prefixes)) : ruleMatches(rule, tokens)}

matchLengths(prefixes, tokens) == {rule.tokenCount : rule \in matchesIn(prefixes, tokens)}

\* the verdict of a layer as the specification words it: none when nothing matches,
\* permit when the longest permit match is at least as long as the longest block
\* match, block otherwise
verdictOf(permitSet, blockSet, tokens) ==
  IF matchLengths(permitSet, tokens) = {} /\ matchLengths(blockSet, tokens) = {} THEN "none"
  ELSE IF /\ matchLengths(permitSet, tokens) # {}
          /\ \A b \in matchLengths(blockSet, tokens) :
               \E p \in matchLengths(permitSet, tokens) : p >= b
       THEN "permit"
  ELSE "block"

sessionVerdict(tokens) == verdictOf(sessionPermitPrefixes, sessionBlockedPrefixes, tokens)

persistentVerdict(tokens) ==
  verdictOf(persistentPermitPrefixes, persistentBlockedPrefixes, tokens)

\* the invocation texts the last evaluation reported
reportedInvocations == {lastBlocked[i].invocation : i \in 1..Len(lastBlocked)}

\* the two layers, each as <<permit set, block set>>
layers ==
  { <<sessionPermitPrefixes, sessionBlockedPrefixes>>,
    <<persistentPermitPrefixes, persistentBlockedPrefixes>> }

\* the prefixes of the matching block rules that have the most tokens
topBlocks(blockSet, tokens) ==
  {rule.prefix : rule \in {r \in matchesIn(blockSet, tokens) :
                             \A b \in matchLengths(blockSet, tokens) : r.tokenCount >= b}}

\* what decideLayer returns for a layer and the tokens of an invocation
decisionOf(layer, tokens) ==
  layerDecision(tokens, buildRules(layer[1]), buildRules(layer[2]))

\* the records of the last evaluation that carry the invocation text
recordsOf(text) == {lastBlocked[i] : i \in {j \in 1..Len(lastBlocked) : lastBlocked[j].invocation = text}}

(***************************************************************************)
(* C1.  A segment whose session verdict is permit is not reported by       *)
(* findBlockedInvocations, whatever persistent block rules match it and    *)
(* however many tokens they have.                                          *)
(***************************************************************************)
C1_SessionPermitOverridesPersistentBlock ==
  Evaluated =>
    \A segment \in Elements(evaluatedSegments) :
      sessionVerdict(invocationOf(segment)) = "permit"
        => join(invocationOf(segment), " ") \notin reportedInvocations

\* a session permit of one token against a persistent block of more tokens
C1_Witness ==
  /\ Evaluated
  /\ lastBlocked = <<>>
  /\ \E segment \in Elements(evaluatedSegments) :
       /\ sessionVerdict(invocationOf(segment)) = "permit"
       /\ \E b \in matchLengths(persistentBlockedPrefixes, invocationOf(segment)) :
            \A p \in matchLengths(sessionPermitPrefixes, invocationOf(segment)) : b > p

(***************************************************************************)
(* C2.  decideLayer returns none iff no permit rule and no block rule      *)
(* matches; otherwise permit iff the longest permit match has at least as  *)
(* many tokens as the longest block match (a tie goes to permit);          *)
(* otherwise block, and then matchedBlocks is non-empty and holds exactly  *)
(* the prefixes of the block matches with the most tokens.                 *)
(***************************************************************************)
C2_DecideLayerBySpecificity ==
  Evaluated =>
    \A segment \in Elements(evaluatedSegments) : \A layer \in layers :
      /\ decisionOf(layer, invocationOf(segment)).action
           = verdictOf(layer[1], layer[2], invocationOf(segment))
      /\ IF decisionOf(layer, invocationOf(segment)).action = "block"
         THEN /\ decisionOf(layer, invocationOf(segment)).matchedBlocks # <<>>
              /\ Elements(decisionOf(layer, invocationOf(segment)).matchedBlocks)
                   = topBlocks(layer[2], invocationOf(segment))
         ELSE decisionOf(layer, invocationOf(segment)).matchedBlocks = <<>>

\* a permit rule and a block rule of the session layer match with the same number of
\* tokens, and the segment is let through
C2_Witness ==
  /\ Evaluated
  /\ \E segment \in Elements(evaluatedSegments) :
       /\ \E n \in matchLengths(sessionPermitPrefixes, invocationOf(segment)) :
            /\ n \in matchLengths(sessionBlockedPrefixes, invocationOf(segment))
            /\ \A b \in matchLengths(sessionBlockedPrefixes, invocationOf(segment)) : b <= n
       /\ decisionOf(<<sessionPermitPrefixes, sessionBlockedPrefixes>>,
                     invocationOf(segment)).action = "permit"
       /\ join(invocationOf(segment), " ") \notin reportedInvocations

(***************************************************************************)
(* C3.  The persistent layer is consulted only when the session verdict is *)
(* none: a segment whose session verdict is block is reported with the     *)
(* session layer's matchedBlocks, whatever persistent permit matches it;   *)
(* a segment whose session verdict is none is reported iff the persistent  *)
(* verdict is block, with the persistent layer's matchedBlocks.            *)
(***************************************************************************)
C3_PersistentOnlyWhenSessionSilent ==
  Evaluated =>
    \A segment \in Elements(evaluatedSegments) :
      invocationOf(segment) # <<>> =>
        /\ sessionVerdict(invocationOf(segment)) = "block" =>
             /\ recordsOf(join(invocationOf(segment), " ")) # {}
             /\ \A r \in recordsOf(join(invocationOf(segment), " ")) :
                  Elements(r.matchedBlocks)
                    = topBlocks(sessionBlockedPrefixes, invocationOf(segment))
        /\ sessionVerdict(invocationOf(segment)) = "none" =>
             /\ recordsOf(join(invocationOf(segment), " ")) # {}
                  <=> persistentVerdict(invocationOf(segment)) = "block"
             /\ \A r \in recordsOf(join(invocationOf(segment), " ")) :
                  Elements(r.matchedBlocks)
                    = topBlocks(persistentBlockedPrefixes, invocationOf(segment))

\* a session block of one token is reported although a persistent permit of more
\* tokens matches the segment
C3_Witness ==
  /\ Evaluated
  /\ \E segment \in Elements(evaluatedSegments) :
       /\ sessionVerdict(invocationOf(segment)) = "block"
       /\ persistentVerdict(invocationOf(segment)) = "permit"
       /\ \E p \in matchLengths(persistentPermitPrefixes, invocationOf(segment)) :
            \A b \in matchLengths(sessionBlockedPrefixes, invocationOf(segment)) : p > b
       /\ recordsOf(join(invocationOf(segment), " ")) # {}

\* the rules compiled from one member of a rule set
rulesOfEntry(prefix) == Elements(buildRules(<<prefix>>))

\* the block rules of both layers
blockRulesOfBothLayers ==
  Elements(buildRules(sessionBlockedPrefixes)) \cup Elements(buildRules(persistentBlockedPrefixes))

\* no permit rule of either layer matches the tokens
noPermitMatches(tokens) ==
  /\ matchesIn(sessionPermitPrefixes, tokens) = {}
  /\ matchesIn(persistentPermitPrefixes, tokens) = {}

\* the tokens of q extend the tokens of p
extends(q, p) ==
  /\ Len(p.tokens) > 0
  /\ Len(q.tokens) > Len(p.tokens)
  /\ SubSeq(q.tokens, 1, Len(p.tokens)) = p.tokens

\* the step is a /bash-guard-permit that adds a rule
permitStep ==
  /\ handled'.handler = "bash-guard-permit"
  /\ Truthy(canonicalizePrefix(handled'.input))

\* the rule the step adds
permittedRules == rulesOfEntry(canonicalizePrefix(handled'.input).value)

\* what findBlockedInvocations returns for the command after the step
blockedAfter(command) ==
  findBlockedInvocations(command, persistentBlockedPrefixes', persistentPermitPrefixes',
                         sessionBlockedPrefixes', sessionPermitPrefixes')

\* the invocations the permit commands are checked on
Invocations == {"kubectl get pods", "kubectl delete pods", "kubectl"}

\* block rule p matches the invocation, no permit rule does, and q extends p
underBlockOnly(q, p, tokens) ==
  /\ extends(q, p)
  /\ ruleMatches(p, tokens)
  /\ noPermitMatches(tokens)

(***************************************************************************)
(* C4.  From a state where prefix P is blocked and no permit rule matches, *)
(* after /bash-guard-permit Q with Q's tokens extending P's tokens: an     *)
(* invocation that starts with Q's tokens is allowed exactly when no       *)
(* session block rule with more tokens than Q matches it, and an           *)
(* invocation that starts with P's tokens but not with Q's tokens remains  *)
(* blocked.                                                                *)
(***************************************************************************)
C4_MoreSpecificPermitWins ==
  [][permitStep =>
       \A command \in Invocations, q \in permittedRules, p \in blockRulesOfBothLayers :
         underBlockOnly(q, p, invocationOf(command)) =>
           IF ruleMatches(q, invocationOf(command))
           THEN blockedAfter(command) = <<>>
                  <=> \A b \in matchLengths(sessionBlockedPrefixes', invocationOf(command)) :
                        b <= q.tokenCount
           ELSE blockedAfter(command) # <<>>]_vars

\* C4 as claimed: every invocation that starts with Q's tokens is allowed
C4_AsClaimed ==
  [][permitStep =>
       \A command \in Invocations, q \in permittedRules, p \in blockRulesOfBothLayers :
         underBlockOnly(q, p, invocationOf(command)) =>
           IF ruleMatches(q, invocationOf(command))
           THEN blockedAfter(command) = <<>>
           ELSE blockedAfter(command) # <<>>]_vars

\* the first command of a session whose stored configuration blocks kubectl is
\* /bash-guard-permit kubectl get: kubectl get pods is allowed, kubectl delete pods
\* is still blocked
C4_Witness ==
  /\ handled = Handled("bash-guard-permit", "kubectl get", "none")
  /\ steps = 2
  /\ has(persistentBlockedPrefixes, "kubectl")
  /\ persistentPermitPrefixes = <<>>
  /\ sessionPermitPrefixes = <<"kubectl get">>
  /\ findBlockedInvocations("kubectl get pods", persistentBlockedPrefixes,
                            persistentPermitPrefixes, sessionBlockedPrefixes,
                            sessionPermitPrefixes) = <<>>
  /\ findBlockedInvocations("kubectl delete pods", persistentBlockedPrefixes,
                            persistentPermitPrefixes, sessionBlockedPrefixes,
                            sessionPermitPrefixes) # <<>>

\* the segment is blocked: the session layer decides block, or it is silent and the
\* persistent layer decides block
segmentBlocked(segment) ==
  /\ invocationOf(segment) # <<>>
  /\ \/ sessionVerdict(invocationOf(segment)) = "block"
     \/ /\ sessionVerdict(invocationOf(segment)) = "none"
        /\ persistentVerdict(invocationOf(segment)) = "block"

\* the blocked segments of the evaluated command string, in segment order
blockedSegments == SelectSeq(evaluatedSegments, segmentBlocked)

\* the matched-block set of a blocked segment: that of the layer that decided
decidingBlocks(segment) ==
  IF sessionVerdict(invocationOf(segment)) = "block"
  THEN topBlocks(sessionBlockedPrefixes, invocationOf(segment))
  ELSE topBlocks(persistentBlockedPrefixes, invocationOf(segment))

\* the handler blocked the command as a whole
commandBlocked == returned.type \in {"block", "result"}

(***************************************************************************)
(* C5.  A command is blocked iff at least one of its segments is blocked,  *)
(* and the list of findBlockedInvocations holds exactly one record per     *)
(* blocked segment, in segment order, each with that segment's normalized  *)
(* invocation text and matched-block set; allowed segments and segments    *)
(* that normalize to nothing add no record.  With persistent block gcloud  *)
(* and no other matching rule, "gcloud compute instances list; echo hi"    *)
(* yields the one record gcloud compute instances list, matched gcloud.    *)
(***************************************************************************)
C5_OneRecordPerBlockedSegment ==
  Evaluated =>
    /\ commandBlocked <=> \E segment \in Elements(evaluatedSegments) : segmentBlocked(segment)
    /\ Len(lastBlocked) = Len(blockedSegments)
    /\ \A i \in 1..Len(lastBlocked) :
         /\ i <= Len(blockedSegments)
         /\ lastBlocked[i].invocation = join(invocationOf(blockedSegments[i]), " ")
         /\ Elements(lastBlocked[i].matchedBlocks) = decidingBlocks(blockedSegments[i])
    /\ ( /\ handled.input = "gcloud compute instances list; echo hi"
         /\ has(persistentBlockedPrefixes, "gcloud")
         /\ ~has(persistentPermitPrefixes, "gcloud")
         /\ ~has(sessionBlockedPrefixes, "gcloud")
         /\ ~has(sessionPermitPrefixes, "gcloud") )
       => lastBlocked = <<BlockedInvocation("gcloud compute instances list", <<"gcloud">>)>>

\* a command of four segments: the first and the last are blocked, by different
\* layers; the second is allowed and the third normalizes to nothing
C5_Witness ==
  /\ Evaluated
  /\ Len(evaluatedSegments) = 4
  /\ invocationOf(evaluatedSegments[3]) = <<>>
  /\ Len(lastBlocked) = 2
  /\ lastBlocked[1].invocation = "kubectl get pods"
  /\ lastBlocked[2].invocation = "gcloud auth list"
  /\ sessionVerdict(invocationOf(evaluatedSegments[1])) = "block"
  /\ sessionVerdict(invocationOf(evaluatedSegments[4])) = "none"
  /\ commandBlocked

\* the step is a persist command whose save threw
failedPersistStep ==
  /\ handled'.handler \in {"bash-guard-block-persist", "bash-guard-permit-persist"}
  /\ handled'.save = "EACCES"

(***************************************************************************)
(* C6.  When the save of /bash-guard-block-persist or                      *)
(* /bash-guard-permit-persist fails, the four rule sets hold after the     *)
(* command what they held before it, and an error is reported.             *)
(***************************************************************************)
C6_FailedSaveRollsBack ==
  [][failedPersistStep =>
       /\ Elements(persistentBlockedPrefixes') = Elements(persistentBlockedPrefixes)
       /\ Elements(persistentPermitPrefixes') = Elements(persistentPermitPrefixes)
       /\ Elements(sessionBlockedPrefixes') = Elements(sessionBlockedPrefixes)
       /\ Elements(sessionPermitPrefixes') = Elements(sessionPermitPrefixes)
       /\ configFile' = configFile
       /\ \E i \in 1..Len(notifications') : notifications'[i].level = "error"]_vars

\* /bash-guard-block-persist kubectl get with persistent permit kubectl get and no
\* persistent block: the block was added and the permit removed before the save
\* threw, and both are undone
C6_Witness ==
  /\ handled = Handled("bash-guard-block-persist", "kubectl get", "EACCES")
  /\ persistentBlockedPrefixes = <<>>
  /\ persistentPermitPrefixes = <<"kubectl get">>
  /\ notifications # <<>>
  /\ notifications[1].level = "error"

(***************************************************************************)
(* C7.  In every reachable state no prefix is in both the block set and    *)
(* the permit set of one layer: the session sets are disjoint and the      *)
(* persistent sets are disjoint.                                           *)
(***************************************************************************)
C7_BlockAndPermitDisjoint ==
  /\ Elements(sessionBlockedPrefixes) \cap Elements(sessionPermitPrefixes) = {}
  /\ Elements(persistentBlockedPrefixes) \cap Elements(persistentPermitPrefixes) = {}

\* a prefix both persistently blocked and persistently permitted after a session start
\* whose stored configuration the persist commands wrote: the defaults, then
\* /bash-guard-block-persist "sudo kubectl" and /bash-guard-permit-persist kubectl
C7_Witness ==
  /\ handled.handler = "session_start"
  /\ persistentBlockedPrefixes = <<"gcloud", "kubectl">>
  /\ persistentPermitPrefixes = <<"kubectl">>

\* the step is a /bash-guard-block-persist whose save succeeded
blockPersistedStep ==
  /\ handled'.handler = "bash-guard-block-persist"
  /\ handled'.save = "written"

\* the persistent layer without the permit for the prefix decides block for the
\* prefix taken as an invocation
blockedWithoutItsPermit(prefix) ==
  verdictOf(delete(persistentPermitPrefixes, prefix), persistentBlockedPrefixes,
            tokenizeShellWords(prefix)) = "block"

restartAfterPersist ==
  /\ handled.handler \in {"bash-guard-block-persist", "bash-guard-permit-persist"}
  /\ handled.save = "written"
  /\ handled'.handler = "session_start"

(***************************************************************************)
(* C9.  A session start that follows a persist command whose save          *)
(* succeeded loads persistent block and permit sets equal to the           *)
(* persistent sets held in memory just before it.                          *)
(***************************************************************************)
C9_SaveThenLoadIsIdentity ==
  [][restartAfterPersist =>
       /\ Elements(persistentBlockedPrefixes') = Elements(persistentBlockedPrefixes)
       /\ Elements(persistentPermitPrefixes') = Elements(persistentPermitPrefixes)]_vars

\* the last handler was session_start or /bash-guard-reset
sessionCleared == handled.handler \in {"session_start", "bash-guard-reset"}

(***************************************************************************)
(* C10.  Right after every session start and every /bash-guard-reset both  *)
(* session rule sets are empty, and a command evaluated next is decided by *)
(* the persistent layer alone: a segment is reported iff the persistent    *)
(* verdict for it is block.                                                *)
(***************************************************************************)
C10_SessionRulesEndWithSession ==
  [][/\ sessionCleared' =>
          sessionBlockedPrefixes' = <<>> /\ sessionPermitPrefixes' = <<>>
     /\ (sessionCleared /\ Evaluated') =>
          \A segment \in Elements(splitShellSegments(handled'.input)) :
            invocationOf(segment) # <<>> =>
              ( (\E i \in 1..Len(lastBlocked') :
                   lastBlocked'[i].invocation = join(invocationOf(segment), " "))
                <=> persistentVerdict(invocationOf(segment)) = "block" )]_vars

\* a /bash-guard-reset that cleared session rules
C10_Witness ==
  /\ handled.handler = "bash-guard-reset"
  /\ notifications # <<>>
  /\ notifications[1].message # "No session guard overrides to reset."
  /\ sessionBlockedPrefixes = <<>>
  /\ sessionPermitPrefixes = <<>>

\* the step is a session-style command or an evaluation entry point
sessionStyleStep ==
  handled'.handler \in {"bash-guard-block", "bash-guard-permit", "bash-guard-reset",
                        "tool_call:bash", "tool_call:read", "user_bash"}

\* the step is /bash-guard-block or /bash-guard-permit
sessionRuleStep == handled'.handler \in {"bash-guard-block", "bash-guard-permit"}

\* the two sets have the same members apart from the prefix
sameApartFrom(before, after, prefix) ==
  Elements(after) \ {prefix} = Elements(before) \ {prefix}

(***************************************************************************)
(* C11.  /bash-guard-block, /bash-guard-permit, /bash-guard-reset,         *)
(* tool_call and user_bash leave both persistent rule sets unchanged and   *)
(* write nothing to storage; /bash-guard-block and /bash-guard-permit      *)
(* change the session sets only with respect to the given canonical        *)
(* prefix.                                                                 *)
(***************************************************************************)
C11_SessionCommandsLeavePersistentAlone ==
  [][/\ sessionStyleStep =>
          /\ persistentBlockedPrefixes' = persistentBlockedPrefixes
          /\ persistentPermitPrefixes' = persistentPermitPrefixes
          /\ configFile' = configFile
          /\ handled'.save = "none"
     /\ sessionRuleStep =>
          \A p \in {canonicalizePrefix(handled'.input).value} :
            /\ sameApartFrom(sessionBlockedPrefixes, sessionBlockedPrefixes', p)
            /\ sameApartFrom(sessionPermitPrefixes, sessionPermitPrefixes', p)]_vars

\* /bash-guard-block kubectl get in a session that permits kubectl, with persistent
\* rules loaded: the permit for kubectl stays and the block is added
C11_Witness ==
  /\ handled = Handled("bash-guard-block", "kubectl get", "none")
  /\ has(sessionBlockedPrefixes, "kubectl get")
  /\ has(sessionPermitPrefixes, "kubectl")
  /\ persistentBlockedPrefixes # <<>>
  /\ configFile.exists


(***************************************************************************)
(* C12                                                                     *)
(***************************************************************************)
PolicyCommands ==
  {"bash-guard-block-persist", "bash-guard-permit-persist", "bash-guard-block",
   "bash-guard-permit"}

\* the arguments of RawPrefixes that normalize to nothing: the empty argument, a blank
\* one, one that is only an environment assignment, one that is only a wrapper command
\* and its option
NormalizeToNothing == {"", " ", "FOO=1", "sudo -u root"}

usageReported ==
  notifications' = <<Notice("Usage: /" \o handled'.handler \o " <prefix>", "warning"), usage>>

\* C12: every step of one of the four prefix-taking policy commands whose raw argument
\* normalizes to nothing (empty, blank, only an environment assignment, only a wrapper
\* command and its options) reports the usage message of that command, leaves the four
\* rule sets and the stored file as they were, and attempts no save.
C12_NothingArgumentIsUsageOnly ==
  [][(handled'.handler \in PolicyCommands /\ handled'.input \in NormalizeToNothing) =>
       /\ usageReported
       /\ persistentBlockedPrefixes' = persistentBlockedPrefixes
       /\ persistentPermitPrefixes' = persistentPermitPrefixes
       /\ sessionBlockedPrefixes' = sessionBlockedPrefixes
       /\ sessionPermitPrefixes' = sessionPermitPrefixes
       /\ configFile' = configFile
       /\ handled'.save = "none"]_vars

C12_Witness ==
  /\ handled = Handled("bash-guard-permit-persist", "sudo -u root", "none")
  /\ notifications =
       <<Notice("Usage: /bash-guard-permit-persist <prefix>", "warning"), usage>>
  /\ persistentBlockedPrefixes = <<"kubectl">>
  /\ sessionPermitPrefixes = <<"kubectl get">>


(***************************************************************************)
(* C13                                                                     *)
(***************************************************************************)
noEmptyEntry == \A i \in 1..4 : ~has(ruleSets[i], "")

everyRuleHasTokens ==
  \A i \in 1..4 : \A set \in {ruleSets[i]} : \A rule \in Elements(buildRules(set)) : rule.tokenCount > 0

\* C13: in every state reached by session starts, policy commands and failed saves, none
\* of the four rule sets contains the empty string, and every rule compiled from a rule
\* set has a token count greater than zero.
C13_NoEmptyEntryNoEmptyRule == noEmptyEntry /\ everyRuleHasTokens

\* /bash-guard-block "('\" \"')" stores the entry '" "', which buildRules compiles to a
\* rule of no tokens
C13_Witness ==
  /\ handled = Handled("bash-guard-block", "\"('\\\" \\\"')\"", "none")
  /\ sessionBlockedPrefixes = <<"'\" \"'">>
  /\ buildRules(sessionBlockedPrefixes) = <<[prefix |-> " ", tokens |-> <<>>, tokenCount |-> 0]>>


(***************************************************************************)
(* C14                                                                     *)
(***************************************************************************)
sessionStartStep == handled'.handler = "session_start"

defaultsInMemory ==
  /\ Elements(persistentBlockedPrefixes') = {"gcloud", "kubectl"}
  /\ persistentPermitPrefixes' = <<>>

defaultsFile ==
  JsonFile([hasBlocked |-> TRUE, blockedPrefixes |-> <<"gcloud", "kubectl">>,
            hasPermitted |-> TRUE, permittedPrefixes |-> <<>>])

sessionStartCompleted ==
  /\ sessionBlockedPrefixes' = <<>>
  /\ sessionPermitPrefixes' = <<>>
  /\ uiStatus' = Undefined
  /\ returned' = ReturnedUndefined

\* C14: on a session start with the configuration file absent, the persistent block set
\* becomes {gcloud, kubectl}, the permit set becomes empty and a save of these defaults
\* is attempted, which writes them or fails and leaves the file absent and the defaults
\* in memory, with an error notice; with the file present but unparsable the persistent
\* sets become the same defaults, one warning is notified, no save is attempted and the
\* file is left as it was; in both cases the handler runs to its end.
C14_SessionStartFallsBackToDefaults ==
  [][sessionStartStep =>
       /\ ~configFile.exists =>
            /\ defaultsInMemory
            /\ sessionStartCompleted
            /\ handled'.save \in SaveOutcomes
            /\ handled'.save = "written" => configFile' = defaultsFile /\ notifications' = <<>>
            /\ handled'.save # "written" =>
                 /\ configFile' = configFile
                 /\ Len(notifications') = 1
                 /\ notifications'[1].level = "error"
       /\ (configFile.exists /\ ~configFile.parses) =>
            /\ defaultsInMemory
            /\ sessionStartCompleted
            /\ handled'.save = "none"
            /\ configFile' = configFile
            /\ Len(notifications') = 1
            /\ notifications'[1].level = "warning"]_vars

C14_Witness ==
  /\ handled = Handled("session_start", "", "EACCES")
  /\ ~configFile.exists
  /\ persistentBlockedPrefixes = <<"gcloud", "kubectl">>
  /\ persistentPermitPrefixes = <<>>
  /\ notifications # <<>>


(***************************************************************************)
(* C15                                                                     *)
(***************************************************************************)
\* what the guard finds in the command string that the last handler was given, under the
\* four rule sets (which tool_call and user_bash leave as they were)
guardFinds ==
  findBlockedInvocations(handled.input, persistentBlockedPrefixes, persistentPermitPrefixes,
                         sessionBlockedPrefixes, sessionPermitPrefixes)

reasonText ==
  "Blocked bash invocation(s): " \o formatBlockedInvocations(guardFinds)
    \o ". Use /bash-guard-permit <prefix> to allow in this session."

\* C15: for every command string and every state of the four rule sets, a tool_call of
\* the bash tool returns block exactly when the guard finds a blocked invocation in the
\* command, and user_bash returns a failed-execution result in exactly the same case;
\* the reason of the one and the output of the other are the same text; the result of
\* user_bash has exitCode 1, cancelled false and truncated false; a tool_call of another
\* tool returns nothing, that is, it is allowed.
C15_SameGuardOnBothEntryPoints ==
  /\ handled.handler = "tool_call:bash" =>
       returned = IF guardFinds = <<>> THEN ReturnedUndefined
                  ELSE [type |-> "block", block |-> TRUE, reason |-> reasonText]
  /\ handled.handler = "user_bash" =>
       returned = IF guardFinds = <<>> THEN ReturnedUndefined
                  ELSE [type |-> "result", output |-> reasonText, exitCode |-> 1,
                        cancelled |-> FALSE, truncated |-> FALSE]
  /\ handled.handler = "tool_call:read" => returned = ReturnedUndefined

C15_Witness ==
  /\ handled.handler = "tool_call:bash"
  /\ returned.type = "block"
  /\ Len(lastBlocked) = 2
  /\ sessionPermitPrefixes # <<>>
  /\ persistentBlockedPrefixes # <<>>


(***************************************************************************)
(* C16                                                                     *)
(***************************************************************************)
Wrappers == {"env", "sudo", "command", "nohup", "time"}

\* the token is of a kind that normalization skips: an environment assignment, a wrapper
\* name, an option flag, or the value that follows env's -u/--unset or one of sudo's
\* value-taking flags
skippable(tokens, i) ==
  \/ isEnvAssignment(tokens[i])
  \/ normalizeCommandName(tokens[i]) \in Wrappers
  \/ startsWith(tokens[i], "-")
  \/ /\ i > 1
     /\ \/ tokens[i - 1] \in {"-u", "--unset"}
        \/ normalizeCommandName(tokens[i - 1]) \in SUDO_OPTIONS_WITH_VALUE

\* result is what is left of tokens after k skipped tokens: nothing when k tokens are all
\* there is, and otherwise the rest, led by a command name that is not a wrapper
normalizedAfter(tokens, k, result) ==
  /\ \A i \in 1..k : skippable(tokens, i)
  /\ IF k = Len(tokens) THEN result = <<>>
     ELSE /\ normalizeCommandName(tokens[k + 1]) \notin Wrappers
          /\ result = <<normalizeCommandName(tokens[k + 1])>>
                        \o SubSeq(tokens, k + 2, Len(tokens))

normalizedRight(tokens) ==
  \E k \in 0..Len(tokens) : normalizedAfter(tokens, k, normalizeInvocationTokens(tokens))

\* C16: for the tokens of every segment evaluated, normalizeInvocationTokens returns
\* either the empty sequence or a suffix of the tokens whose first element is replaced by
\* its normalized command name, a name that is none of env, sudo, command, nohup, time;
\* every token before it is an environment assignment, a wrapper name, an option flag or
\* the value of env's -u/--unset or of a value-taking flag of sudo; the result is empty
\* exactly when all tokens are skipped.  Nested wrappers are stripped:
\* sudo env FOO=1 kubectl get pods and sudo -u root kubectl get pods give
\* [kubectl, get, pods].
C16_NormalizationSkipsWrappers ==
  Evaluated =>
    /\ \A i \in 1..Len(evaluatedSegments) :
         normalizedRight(tokenizeShellWords(evaluatedSegments[i]))
    /\ handled.input \in {"sudo env FOO=1 kubectl get pods", "sudo -u root kubectl get pods"} =>
         /\ invocationOf(handled.input) = <<"kubectl", "get", "pods">>
         /\ reportedInvocations = {"kubectl get pods"}

C16_Witness ==
  /\ handled = Handled("user_bash", "sudo -u root kubectl get pods", "none")
  /\ Len(lastBlocked) = 1
  /\ lastBlocked[1].invocation = "kubectl get pods"


(***************************************************************************)
(* C17                                                                     *)
(***************************************************************************)
Delimiters == {";", "|", "&", "\n"}

\* the character at i directly follows a backslash that is not itself escaped
RECURSIVE escapedAt(_, _)
escapedAt(text, i) == i > 1 /\ charAt(text, i - 1) = "\\" /\ ~escapedAt(text, i - 1)

\* the quote that is open when the scanner of splitShellSegments reaches the character
\* at i: a quote character that is not escaped opens a quote when none is open, and
\* closes the open one when it is the same character
RECURSIVE quoteAt(_, _)
quoteAt(text, i) ==
  IF i = 1 THEN NoQuote
  ELSE LET before == quoteAt(text, i - 1)
           c == charAt(text, i - 1) IN
       IF escapedAt(text, i - 1) \/ c = "\\" THEN before
       ELSE IF before # NoQuote THEN (IF c = before THEN NoQuote ELSE before)
       ELSE IF c \in {"\"", "'"} THEN c
       ELSE before

\* the positions where a segment ends: a delimiter met outside quotes and not escaped
boundaries(text) ==
  {i \in 1..Len(text) :
     /\ charAt(text, i) \in Delimiters
     /\ quoteAt(text, i) = NoQuote
     /\ ~escapedAt(text, i)}

\* the pieces of text between one boundary and the next, in order
RECURSIVE piecesFrom(_, _, _)
piecesFrom(text, start, ends) ==
  IF ends = {} THEN <<SubSeq(text, start, Len(text))>>
  ELSE LET next == CHOOSE i \in ends : \A j \in ends : i <= j IN
       <<SubSeq(text, start, next - 1)>> \o piecesFrom(text, next + 1, ends \ {next})

nonBlank(piece) == \E i \in 1..Len(piece) : ~IsWhitespace(charAt(piece, i))

isTrimmed(piece) ==
  /\ Len(piece) > 0
  /\ ~IsWhitespace(charAt(piece, 1))
  /\ ~IsWhitespace(charAt(piece, Len(piece)))

\* segments are the non-blank ones of pieces, each trimmed, in the same order
RECURSIVE trimmedNonBlank(_, _)
trimmedNonBlank(pieces, segments) ==
  IF pieces = <<>> THEN segments = <<>>
  ELSE IF ~nonBlank(pieces[1]) THEN trimmedNonBlank(Tail(pieces), segments)
  ELSE /\ segments # <<>>
       /\ isTrimmed(segments[1])
       /\ \E lo \in 1..Len(pieces[1]) : \E hi \in lo..Len(pieces[1]) :
            /\ SubSeq(pieces[1], lo, hi) = segments[1]
            /\ ~nonBlank(SubSeq(pieces[1], 1, lo - 1))
            /\ ~nonBlank(SubSeq(pieces[1], hi + 1, Len(pieces[1])))
       /\ trimmedNonBlank(Tail(pieces), Tail(segments))

\* C17: for every command string, splitShellSegments ends a segment at a character
\* exactly when the character is one of ; | & newline and is met outside quotes and not
\* escaped, so that a delimiter inside single or double quotes or directly after an
\* unescaped backslash stays in its segment; every segment is trimmed and non-blank, and
\* the segments are in input order.  a; b | c gives [a, b, c], and echo "a;b" is one
\* segment.
C17_SegmentsEndAtUnquotedDelimiters ==
  Evaluated =>
    /\ trimmedNonBlank(piecesFrom(handled.input, 1, boundaries(handled.input)),
                       splitShellSegments(handled.input))
    /\ handled.input = "a; b | c" => splitShellSegments(handled.input) = <<"a", "b", "c">>
    /\ handled.input = "echo \"a;b\"" =>
         splitShellSegments(handled.input) = <<"echo \"a;b\"">>

C17_Witness ==
  /\ handled.handler = "user_bash"
  /\ handled.input = "\\;;a"
  /\ splitShellSegments(handled.input) = <<"\\;", "a">>
  /\ reportedInvocations = {"a"}


(***************************************************************************)
(* C18                                                                     *)
(***************************************************************************)
\* the quote that is open, and whether a backslash is pending, when the scanner of
\* tokenizeShellWords reaches the character at i
RECURSIVE wordStateAt(_, _)
wordStateAt(text, i) ==
  IF i = 1 THEN [quote |-> NoQuote, escaped |-> FALSE]
  ELSE LET before == wordStateAt(text, i - 1)
           c == charAt(text, i - 1) IN
       IF before.escaped THEN [quote |-> before.quote, escaped |-> FALSE]
       ELSE IF c = "\\" /\ before.quote # "'" THEN [quote |-> before.quote, escaped |-> TRUE]
       ELSE IF before.quote # NoQuote
         THEN [quote |-> IF c = before.quote THEN NoQuote ELSE before.quote, escaped |-> FALSE]
       ELSE IF c \in {"\"", "'"} THEN [quote |-> c, escaped |-> FALSE]
       ELSE before

\* what the character at i is to the tokens: "copied" into the token, "dropped" (a
\* backslash that escapes, a quote character that opens or closes quoting), or a
\* "separator" (unquoted unescaped whitespace)
roleOfChar(c, state) ==
  IF state.escaped THEN "copied"
  ELSE IF c = "\\" THEN (IF state.quote = "'" THEN "copied" ELSE "dropped")
  ELSE IF state.quote # NoQuote THEN (IF c = state.quote THEN "dropped" ELSE "copied")
  ELSE IF c \in {"\"", "'"} THEN "dropped"
  ELSE IF IsWhitespace(c) THEN "separator"
  ELSE "copied"

roleAt(text, i) == roleOfChar(charAt(text, i), wordStateAt(text, i))

\* the copied characters of text[lo..hi], in order
RECURSIVE copiedText(_, _, _)
copiedText(text, lo, hi) ==
  IF lo > hi THEN ""
  ELSE (IF roleAt(text, lo) = "copied" THEN charAt(text, lo) ELSE "")
         \o copiedText(text, lo + 1, hi)

\* the copied text between one separator and the next, in order
RECURSIVE wordsFrom(_, _, _)
wordsFrom(text, start, separators) ==
  IF separators = {} THEN <<copiedText(text, start, Len(text))>>
  ELSE LET next == CHOOSE i \in separators : \A j \in separators : i <= j IN
       <<copiedText(text, start, next - 1)>> \o wordsFrom(text, next + 1, separators \ {next})

nonEmptyWord(word) == word # ""

wordsOf(text) ==
  SelectSeq(wordsFrom(text, 1, {i \in 1..Len(text) : roleAt(text, i) = "separator"}),
            nonEmptyWord)

\* C18: for every segment, the tokens of tokenizeShellWords are the non-empty words that
\* unquoted unescaped whitespace separates, where outside quotes and inside double quotes
\* a backslash is dropped and the next character is copied literally, inside single
\* quotes a backslash is copied and escapes nothing, the unescaped quote characters that
\* open and close quoting are not copied, and quoted and unquoted fragments with no
\* whitespace between them are one token; no token is empty.  a "b c" d gives
\* [a, b c, d].
C18_TokensAreUnquotedWords ==
  Evaluated =>
    /\ \A i \in 1..Len(evaluatedSegments) :
         /\ tokenizeShellWords(evaluatedSegments[i]) = wordsOf(evaluatedSegments[i])
         /\ \A t \in Elements(tokenizeShellWords(evaluatedSegments[i])) : t # ""
    /\ handled.input = "a \"b c\" d" => tokenizeShellWords(handled.input) = <<"a", "b c", "d">>
    /\ handled.input = "a'\\'" => tokenizeShellWords(handled.input) = <<"a\\">>
    /\ handled.input = "a\\ b" => tokenizeShellWords(handled.input) = <<"a b">>
    /\ handled.input = "\"\\\"\"" => tokenizeShellWords(handled.input) = <<"\"">>

C18_Witness ==
  /\ handled = Handled("user_bash", "a \"b c\" d", "none")
  /\ tokenizeShellWords(handled.input) = <<"a", "b c", "d">>
  /\ reportedInvocations = {"a b c d"}


(***************************************************************************)
(* C19                                                                     *)
(***************************************************************************)
\* the rules compiled from the two block sets
blockRules ==
  Elements(buildRules(sessionBlockedPrefixes)) \cup Elements(buildRules(persistentBlockedPrefixes))

\* the invocations of the segments evaluated
evaluatedInvocations ==
  {invocationOf(evaluatedSegments[i]) : i \in 1..Len(evaluatedSegments)}

\* tokens that an invocation is extended by
ExtraTokens == {"a", "b", "get", "GET", "-x", "a b"}

\* C19: for every invocation I evaluated and every compiled rule R, isPrefixMatch(I, R)
\* holds exactly when R has at least one token, has no more tokens than I, and its tokens
\* are the first tokens of I, compared as exact, case-sensitive strings; and when R
\* matches I it matches I with a token appended.  kubectl GET pods is not matched by the
\* rule kubectl get; KUBECTL get, whose command name normalizes to kubectl, is.
C19_MatchIsPositionalPrefix ==
  Evaluated =>
    /\ \A I \in evaluatedInvocations : \A R \in blockRules :
         /\ isPrefixMatch(I, R.tokens) <=> ruleMatches(R, I)
         /\ isPrefixMatch(I, R.tokens) =>
              \A extra \in ExtraTokens : isPrefixMatch(Append(I, extra), R.tokens)
    /\ reportedInvocations =
         {join(I, " ") : I \in {J \in evaluatedInvocations :
                                  \E R \in blockRules : ruleMatches(R, J)}}
    /\ handled.input = "kubectl GET pods" => lastBlocked[1].matchedBlocks = <<"kubectl">>
    /\ handled.input = "KUBECTL get" => lastBlocked[1].matchedBlocks = <<"kubectl get">>

C19_Witness ==
  /\ handled = Handled("user_bash", "kubectl GET pods", "none")
  /\ Len(lastBlocked) = 1
  /\ lastBlocked[1].matchedBlocks = <<"kubectl">>
  /\ \E R \in blockRules : R.tokenCount = 0
  /\ \E R \in blockRules : R.tokens = <<"kubectl", "get">>


(***************************************************************************)
(* C20                                                                     *)
(***************************************************************************)
\* the last step was a policy command whose argument the rule compiler accepted
acceptedRawPrefix ==
  /\ handled.handler \in PolicyCommands
  /\ Truthy(canonicalizePrefix(handled.input))

\* the canonical prefix of that argument, which the command stores in a rule set
storedPrefix == canonicalizePrefix(handled.input).value

\* tokenize then normalize
normalizedTokensOf(raw) == normalizeInvocationTokens(tokenizeShellWords(trim(raw)))

\* C20: for every raw prefix that the rule compiler accepts, the rule compiled from the
\* canonical prefix stored in a rule set has the normalized tokens of the raw prefix as
\* its tokens, their number as its tokenCount and the stored canonical prefix as its
\* prefix, and canonicalizing the stored prefix returns it unchanged.
C20_RuleIsNormalizedRawPrefix ==
  acceptedRawPrefix =>
    /\ canonicalizePrefix(storedPrefix) = Defined(storedPrefix)
    /\ \A i \in 1..4 :
         has(ruleSets[i], storedPrefix) =>
           [prefix |-> storedPrefix,
            tokens |-> normalizedTokensOf(handled.input),
            tokenCount |-> Len(normalizedTokensOf(handled.input))]
             \in Elements(buildRules(ruleSets[i]))

\* /bash-guard-block 'a b' c stores a b c; its rule has the three tokens a, b, c, where
\* the raw prefix normalizes to the two tokens a b and c
C20_Witness ==
  /\ handled = Handled("bash-guard-block", "'a b' c", "none")
  /\ has(sessionBlockedPrefixes, "a b c")
  /\ normalizedTokensOf(handled.input) = <<"a b", "c">>
  /\ buildRules(<<"a b c">>) = <<[prefix |-> "a b c", tokens |-> <<"a", "b", "c">>, tokenCount |-> 3]>>


(***************************************************************************)
(* C21                                                                     *)
(***************************************************************************)
\* the decision of decideLayer for the invocation that the stored prefix is, as a command
\* string, in the session layer and in the persistent layer
sessionDecisionForPrefix ==
  layerDecision(invocationOf(storedPrefix), buildRules(sessionPermitPrefixes),
                buildRules(sessionBlockedPrefixes)).action

persistentDecisionForPrefix ==
  layerDecision(invocationOf(storedPrefix), buildRules(persistentPermitPrefixes),
                buildRules(persistentBlockedPrefixes)).action

blockSessionTakesEffect ==
  handled.handler = "bash-guard-block" => sessionDecisionForPrefix = "block"

permitSessionTakesEffect ==
  handled.handler = "bash-guard-permit" => sessionDecisionForPrefix = "permit"

blockPersistTakesEffect ==
  (handled.handler = "bash-guard-block-persist" /\ handled.save = "written") =>
    persistentDecisionForPrefix = "block"

permitPersistTakesEffect ==
  (handled.handler = "bash-guard-permit-persist" /\ handled.save = "written") =>
    persistentDecisionForPrefix = "permit"

\* C21: right after a policy command that accepted its prefix p (and, for a persistent
\* command, saved it), the layer the command wrote to decides the invocation p the way
\* the command says: block after /bash-guard-block and /bash-guard-block-persist, permit
\* after /bash-guard-permit and /bash-guard-permit-persist, whatever the rule sets held
\* before.
C21_CommandTakesEffectForItsPrefix ==
  acceptedRawPrefix =>
    /\ blockSessionTakesEffect
    /\ permitSessionTakesEffect
    /\ blockPersistTakesEffect
    /\ permitPersistTakesEffect


\* /bash-guard-permit "sudo kubectl" and then /bash-guard-block kubectl: the permit entry
\* sudo kubectl compiles to the rule kubectl, which ties with the block rule kubectl
C21_Witness ==
  /\ handled = Handled("bash-guard-block", "kubectl", "none")
  /\ sessionBlockedPrefixes = <<"kubectl">>
  /\ sessionPermitPrefixes = <<"sudo kubectl">>
  /\ sessionDecisionForPrefix = "permit"


(***************************************************************************)
(* C22                                                                     *)
(***************************************************************************)
\* the delimiters of text that are unquoted and unescaped by the rules of
\* tokenizeShellWords, where a backslash inside single quotes is literal
unquotedDelimiters(text) ==
  {i \in 1..Len(text) :
     /\ charAt(text, i) \in Delimiters
     /\ wordStateAt(text, i).quote = NoQuote
     /\ ~wordStateAt(text, i).escaped}

\* C22: for every command string, each ; | & or newline that is unquoted and unescaped
\* by the rules of tokenizeShellWords is a segment boundary of splitShellSegments, and so
\* the non-blank text between two such delimiters is a segment of its own, evaluated as
\* its own invocation.
C22_SegmenterAgreesWithTokenizer ==
  Evaluated =>
    /\ unquotedDelimiters(handled.input) \subseteq boundaries(handled.input)
    /\ trimmedNonBlank(piecesFrom(handled.input, 1, unquotedDelimiters(handled.input)),
                       evaluatedSegments)

\* echo '\';kubectl get pods: a shell runs kubectl get pods, the guard sees one echo
\* invocation and reports nothing
C22_Witness ==
  /\ handled = Handled("user_bash", "echo '\\';kubectl get pods", "none")
  /\ unquotedDelimiters(handled.input) = {9}
  /\ boundaries(handled.input) = {}
  /\ evaluatedSegments = <<handled.input>>
  /\ invocationOf(handled.input) = <<"echo", "\\;kubectl", "get", "pods">>
  /\ lastBlocked = <<>>
  /\ returned = ReturnedUndefined

====
